---- MODULE Spec2Model ----
(***************************************************************************)
(* EG-STAT: curve generator (performance.py, curves.py, validate.py),       *)
(* solvers (solver.py), top speed (vehicle.py) and upshifts (shifts.py)     *)
(* as pure-function state machines; presets (presets.py) and the command   *)
(* line's input building (cli.py) over a heap of mutable objects.          *)
(*                                                                         *)
(* Python floats are modelled as exact numbers (n/d) * pi^p, kept in       *)
(* lowest terms; None is the string "None"; Python strings are TLA+        *)
(* strings; a raised exception is a record [ok |-> FALSE, exc |-> ...].    *)
(***************************************************************************)
EXTENDS Integers, Sequences, FiniteSets, TLC

VARIABLES pc, call, ret, heap

vars == <<pc, call, ret, heap>>

None == "None"

\* heap maps the name of each mutable object the calls can reach to its value;
\* the pure functions below allocate nothing that outlives them.
NoObjects == <<>>

(***************************************************************************)
(* Exact arithmetic standing for Python float arithmetic.                  *)
(***************************************************************************)
Abs(a) == IF a < 0 THEN -a ELSE a

RECURSIVE GCD(_, _)
GCD(a, b) == IF b = 0 THEN a ELSE GCD(b, a % b)

\* (n/d) * pi^p in lowest terms with d > 0; zero is always 0/1 * pi^0.
Num(n, d, p) ==
    IF n = 0 THEN [n |-> 0, d |-> 1, p |-> 0]
    ELSE LET s == IF d < 0 THEN -1 ELSE 1
             g == GCD(Abs(n), Abs(d))
         IN  [n |-> (s * n) \div g, d |-> (s * d) \div g, p |-> p]

Q(n, d) == Num(n, d, 0)
Z(n) == Num(n, 1, 0)
Pi == Num(1, 1, 1)

RMul(a, b) ==
    IF a.n = 0 \/ b.n = 0 THEN Z(0)
    ELSE LET g1 == GCD(Abs(a.n), b.d)
             g2 == GCD(Abs(b.n), a.d)
         IN  Num((a.n \div g1) * (b.n \div g2), (a.d \div g2) * (b.d \div g1), a.p + b.p)

RInv(a) == Num(a.d, a.n, -a.p)
RDiv(a, b) == RMul(a, RInv(b))
RNeg(a) == [a EXCEPT !.n = -a.n]

\* Sum of two numbers of the same pi-power (or with a zero operand).
RAdd(a, b) ==
    IF a.n = 0 THEN b
    ELSE IF b.n = 0 THEN a
    ELSE LET g == GCD(a.d, b.d)
         IN  Num(a.n * (b.d \div g) + b.n * (a.d \div g), (a.d \div g) * b.d, a.p)

RSub(a, b) == RAdd(a, RNeg(b))

\* Order of two numbers of the same pi-power (or with a zero operand).
RLt(a, b) ==
    LET g == GCD(a.d, b.d)
    IN  a.n * (b.d \div g) < b.n * (a.d \div g)
RLe(a, b) ==
    LET g == GCD(a.d, b.d)
    IN  a.n * (b.d \div g) <= b.n * (a.d \div g)
RGt(a, b) == RLt(b, a)
RGe(a, b) == RLe(b, a)
RAbs(a) == [a EXCEPT !.n = Abs(a.n)]

Ok(v) == [ok |-> TRUE, v |-> v]
Raise(e) == [ok |-> FALSE, exc |-> e]

(***************************************************************************)
(* curves.py                                                               *)
(***************************************************************************)
Pt(x100, y100) == <<Q(x100, 100), Q(y100, 100)>>

\* The shapes of torque_biased and top_end exchanged.
TemplatesMislabelled ==
    [torque_biased |-> <<Pt(0, 20), Pt(20, 55), Pt(40, 80), Pt(60, 95),
                         Pt(72, 100), Pt(85, 98), Pt(100, 92)>>,
     balanced      |-> <<Pt(0, 30), Pt(15, 62), Pt(35, 90), Pt(55, 100),
                         Pt(70, 95), Pt(85, 82), Pt(100, 70)>>,
     top_end       |-> <<Pt(0, 35), Pt(15, 65), Pt(35, 95), Pt(45, 100),
                         Pt(60, 92), Pt(75, 78), Pt(90, 62), Pt(100, 50)>>]

TEMPLATES ==
    [torque_biased |-> <<Pt(0, 35), Pt(15, 65), Pt(35, 95), Pt(45, 100),
                         Pt(60, 92), Pt(75, 78), Pt(90, 62), Pt(100, 50)>>,
     balanced      |-> <<Pt(0, 30), Pt(15, 62), Pt(35, 90), Pt(55, 100),
                         Pt(70, 95), Pt(85, 82), Pt(100, 70)>>,
     top_end       |-> <<Pt(0, 20), Pt(20, 55), Pt(40, 80), Pt(60, 95),
                         Pt(72, 100), Pt(85, 98), Pt(100, 92)>>]

list_profiles == <<"balanced", "top_end", "torque_biased">>

_clamp(x, lo, hi) ==
    IF RLt(x, lo) THEN lo
    ELSE IF RGt(x, hi) THEN hi
    ELSE x

\* sorted(points, key=lambda p: p[0]): stable insertion sort on x.
RECURSIVE InsertByX(_, _)
InsertByX(sorted, p) ==
    IF sorted = <<>> THEN <<p>>
    ELSE LET last == sorted[Len(sorted)]
         IN  IF RLe(last[1], p[1]) THEN Append(sorted, p)
             ELSE Append(InsertByX(SubSeq(sorted, 1, Len(sorted) - 1), p), last)

RECURSIVE SortedByX(_)
SortedByX(points) ==
    IF points = <<>> THEN <<>>
    ELSE InsertByX(SortedByX(SubSeq(points, 1, Len(points) - 1)), points[Len(points)])

\* The for loop of piecewise_linear from segment i on.
RECURSIVE SegmentScan(_, _, _)
SegmentScan(pts, x, i) ==
    IF i >= Len(pts) THEN pts[Len(pts)][2]
    ELSE LET x0 == pts[i][1]
             y0 == pts[i][2]
             x1 == pts[i + 1][1]
             y1 == pts[i + 1][2]
         IN  IF RLe(x0, x) /\ RLe(x, x1)
             THEN IF x1 = x0 THEN y0
                  ELSE LET t == RDiv(RSub(x, x0), RSub(x1, x0))
                       IN  RAdd(y0, RMul(t, RSub(y1, y0)))
             ELSE SegmentScan(pts, x, i + 1)

\* A step function: the right neighbour's y instead of the interpolation.
PiecewiseStep(points, x0) ==
    LET x   == _clamp(x0, Z(0), Z(1))
        pts == SortedByX(points)
    IN  IF RLe(x, pts[1][1]) THEN pts[1][2]
        ELSE IF RGe(x, pts[Len(pts)][1]) THEN pts[Len(pts)][2]
        ELSE LET k == CHOOSE i \in 1..(Len(pts) - 1) : RLe(pts[i][1], x) /\ RLe(x, pts[i + 1][1])
             IN  pts[k + 1][2]

piecewise_linear(points, x0) ==
    LET x   == _clamp(x0, Z(0), Z(1))
        pts == SortedByX(points)
    IN  IF RLe(x, pts[1][1]) THEN pts[1][2]
        ELSE IF RGe(x, pts[Len(pts)][1]) THEN pts[Len(pts)][2]
        ELSE SegmentScan(pts, x, 1)

normalized_profile(profile, x) ==
    IF profile \notin DOMAIN TEMPLATES
    THEN Raise("ValueError: Unknown profile '" \o profile
                   \o "'. Valid: ['balanced', 'top_end', 'torque_biased']")
    ELSE Ok(_clamp(piecewise_linear(TEMPLATES[profile], x), Z(0), Z(1)))

rpm_fraction(rpm, rpm_min, rpm_max) ==
    IF rpm_max <= rpm_min THEN Raise("ValueError: rpm_max must be > rpm_min")
    ELSE Ok(_clamp(Q(rpm - rpm_min, rpm_max - rpm_min), Z(0), Z(1)))

(***************************************************************************)
(* Python values: optional floats, strings, dicts.                         *)
(***************************************************************************)
\* None where a float is expected (no number has denominator 0).
NoneNum == [n |-> 0, d |-> 0, p |-> 0]
IsNone(x) == x = NoneNum

\* An optional list: None, or the list given.
NoneList == [given |-> FALSE, list |-> <<>>]
SomeList(l) == [given |-> TRUE, list |-> l]

EmptyDict == <<>>

UpperToLower ==
    [c \in {"A", "B", "C", "D", "E", "F", "G", "H", "I", "J", "K", "L", "M",
            "N", "O", "P", "Q", "R", "S", "T", "U", "V", "W", "X", "Y", "Z"} |->
        CASE c = "A" -> "a" [] c = "B" -> "b" [] c = "C" -> "c" [] c = "D" -> "d"
          [] c = "E" -> "e" [] c = "F" -> "f" [] c = "G" -> "g" [] c = "H" -> "h"
          [] c = "I" -> "i" [] c = "J" -> "j" [] c = "K" -> "k" [] c = "L" -> "l"
          [] c = "M" -> "m" [] c = "N" -> "n" [] c = "O" -> "o" [] c = "P" -> "p"
          [] c = "Q" -> "q" [] c = "R" -> "r" [] c = "S" -> "s" [] c = "T" -> "t"
          [] c = "U" -> "u" [] c = "V" -> "v" [] c = "W" -> "w" [] c = "X" -> "x"
          [] c = "Y" -> "y" [] c = "Z" -> "z"]

\* str.lower()
RECURSIVE Lower(_)
Lower(s) ==
    IF Len(s) = 0 THEN ""
    ELSE LET c == SubSeq(s, 1, 1)
         IN  (IF c \in DOMAIN UpperToLower THEN UpperToLower[c] ELSE c)
                 \o Lower(SubSeq(s, 2, Len(s)))

\* str.strip()
RECURSIVE Strip(_)
Strip(s) ==
    IF Len(s) = 0 THEN s
    ELSE IF SubSeq(s, 1, 1) = " " THEN Strip(SubSeq(s, 2, Len(s)))
    ELSE IF SubSeq(s, Len(s), Len(s)) = " " THEN Strip(SubSeq(s, 1, Len(s) - 1))
    ELSE s

\* str.startswith(pre)
StartsWith(s, pre) == Len(s) >= Len(pre) /\ SubSeq(s, 1, Len(pre)) = pre

\* sub in s
Contains(s, sub) ==
    \E i \in 1..(Len(s) - Len(sub) + 1) : SubSeq(s, i, i + Len(sub) - 1) = sub

(***************************************************************************)
(* validate.py                                                             *)
(***************************************************************************)
ValidationIssue(level, field, message) ==
    [level |-> level, field |-> field, message |-> message]

\* ValidationIssue.__str__
IssueStr(i) == "[" \o i.level \o "] " \o i.field \o ": " \o i.message

_is_pos(x) == ~IsNone(x) /\ RGt(x, Z(0))

validate_engine_inputs(cylinders, bore_m, stroke_m, displacement_m3, idle_rpm, redline_rpm) ==
    LET cyl == IF IsNone(cylinders)
               THEN <<ValidationIssue("ERROR", "cylinders", "Missing cylinder count.")>>
               ELSE IF RLe(cylinders, Z(0))
               THEN <<ValidationIssue("ERROR", "cylinders", "Must be > 0.")>>
               ELSE <<>>
        bore == IF ~IsNone(bore_m) /\ RLe(bore_m, Z(0))
                THEN <<ValidationIssue("ERROR", "bore_m", "Must be > 0.")>> ELSE <<>>
        stroke == IF ~IsNone(stroke_m) /\ RLe(stroke_m, Z(0))
                  THEN <<ValidationIssue("ERROR", "stroke_m", "Must be > 0.")>> ELSE <<>>
        disp == IF ~IsNone(displacement_m3) /\ RLe(displacement_m3, Z(0))
                THEN <<ValidationIssue("ERROR", "displacement_m3", "Must be > 0.")>> ELSE <<>>
        idle == IF ~IsNone(idle_rpm) /\ RLe(idle_rpm, Z(0))
                THEN <<ValidationIssue("ERROR", "idle_rpm", "Must be > 0.")>> ELSE <<>>
        redline == IF ~IsNone(redline_rpm) /\ RLe(redline_rpm, Z(0))
                   THEN <<ValidationIssue("ERROR", "redline_rpm", "Must be > 0.")>> ELSE <<>>
        gap == IF _is_pos(idle_rpm) /\ _is_pos(redline_rpm)
               THEN IF RLe(redline_rpm, idle_rpm)
                    THEN <<ValidationIssue("ERROR", "redline_rpm", "Must be greater than idle_rpm.")>>
                    ELSE IF RLt(redline_rpm, RAdd(idle_rpm, Z(500)))
                    THEN <<ValidationIssue("WARN", "redline_rpm", "Very low gap between idle and redline.")>>
                    ELSE <<>>
               ELSE <<>>
        geometry == IF IsNone(displacement_m3) /\ (IsNone(bore_m) \/ IsNone(stroke_m))
                    THEN <<ValidationIssue("WARN", "displacement",
                             "Provide displacement_m3 or (bore_m + stroke_m) for full calculations.")>>
                    ELSE <<>>
    IN  cyl \o bore \o stroke \o disp \o idle \o redline \o gap \o geometry

\* Validation that lets every issue pass.
HasErrorsNever(issues) == FALSE

has_errors(issues) == \E i \in 1..Len(issues) : issues[i].level = "ERROR"

(***************************************************************************)
(* models.py                                                               *)
(***************************************************************************)
EngineSpec(cylinders, cycle, bore_m, stroke_m, displacement_m3, idle_rpm, redline_rpm) ==
    [cylinders |-> cylinders, cycle |-> cycle, bore_m |-> bore_m, stroke_m |-> stroke_m,
     displacement_m3 |-> displacement_m3, idle_rpm |-> idle_rpm, redline_rpm |-> redline_rpm]

Assumptions(ve_profile, fuel, bsfc_g_per_kwh) ==
    [ve_profile |-> ve_profile, friction_class |-> "oem", fuel |-> fuel,
     bsfc_g_per_kwh |-> bsfc_g_per_kwh]

RunConfig(rpm_min, rpm_max, rpm_step) ==
    [rpm_min |-> rpm_min, rpm_max |-> rpm_max, rpm_step |-> rpm_step]

Result(scalars, curves, issues) ==
    [scalars |-> scalars, curves |-> curves, issues |-> issues]

VehicleSpec(mass_kg, cd, frontal_area_m2, crr, air_density_kg_m3) ==
    [mass_kg |-> mass_kg, cd |-> cd, frontal_area_m2 |-> frontal_area_m2, crr |-> crr,
     air_density_kg_m3 |-> air_density_kg_m3]

\* gears is an optional list: NoneList or SomeList(<<...>>).
DrivetrainSpec(gears, final_drive, tire_radius_m, drivetrain_efficiency) ==
    [gears |-> gears, final_drive |-> final_drive, tire_radius_m |-> tire_radius_m,
     drivetrain_efficiency |-> drivetrain_efficiency]

(***************************************************************************)
(* performance.py                                                          *)
(***************************************************************************)
rpm_to_rad_s(rpm) == RDiv(RMul(RMul(Z(2), Pi), rpm), Z(60))

\* The swept volume of one cylinder, not of all of them.
DisplacementOneCylinder(bore_m, stroke_m, cylinders) ==
    IF RLe(bore_m, Z(0)) \/ RLe(stroke_m, Z(0))
    THEN Raise("ValueError: bore_m and stroke_m must be > 0")
    ELSE IF cylinders <= 0 THEN Raise("ValueError: cylinders must be > 0")
    ELSE Ok(RMul(RMul(RDiv(Pi, Z(4)), RMul(bore_m, bore_m)), stroke_m))

displacement_m3_from_bore_stroke(bore_m, stroke_m, cylinders) ==
    IF RLe(bore_m, Z(0)) \/ RLe(stroke_m, Z(0))
    THEN Raise("ValueError: bore_m and stroke_m must be > 0")
    ELSE IF cylinders <= 0 THEN Raise("ValueError: cylinders must be > 0")
    ELSE Ok(RMul(RMul(RMul(RDiv(Pi, Z(4)), RMul(bore_m, bore_m)), stroke_m), Z(cylinders)))

\* One stroke per revolution instead of two.
MeanPistonSpeedOneStroke(stroke_m, rpm) ==
    IF RLe(stroke_m, Z(0)) THEN Raise("ValueError: stroke_m must be > 0")
    ELSE IF RLt(rpm, Z(0)) THEN Raise("ValueError: rpm must be >= 0")
    ELSE Ok(RMul(stroke_m, RDiv(rpm, Z(60))))

mean_piston_speed_mps(stroke_m, rpm) ==
    IF RLe(stroke_m, Z(0)) THEN Raise("ValueError: stroke_m must be > 0")
    ELSE IF RLt(rpm, Z(0)) THEN Raise("ValueError: rpm must be >= 0")
    ELSE Ok(RMul(RMul(Z(2), stroke_m), RDiv(rpm, Z(60))))

torque_nm_from_bmep_pa(bmep_pa, displacement_m3, revs_per_power) ==
    IF RLt(bmep_pa, Z(0)) THEN Raise("ValueError: bmep_pa must be >= 0")
    ELSE IF RLe(displacement_m3, Z(0)) THEN Raise("ValueError: displacement_m3 must be > 0")
    ELSE IF revs_per_power \notin {1, 2}
    THEN Raise("ValueError: revs_per_power must be 1 (2-stroke) or 2 (4-stroke)")
    ELSE LET radians_per_cycle == RMul(RMul(Z(2), Pi), Z(revs_per_power))
         IN  Ok(RDiv(RMul(bmep_pa, displacement_m3), radians_per_cycle))

power_w_from_torque_rpm(torque_nm, rpm) ==
    IF RLt(rpm, Z(0)) THEN Raise("ValueError: rpm must be >= 0")
    ELSE IF RLt(torque_nm, Z(0)) THEN Raise("ValueError: torque_nm must be >= 0")
    ELSE Ok(RMul(torque_nm, rpm_to_rad_s(rpm)))

power_kw_from_torque_rpm(torque_nm, rpm) ==
    LET w == power_w_from_torque_rpm(torque_nm, rpm)
    IN  IF ~w.ok THEN w ELSE Ok(RDiv(w.v, Z(1000)))

\* list(range(start, stop, step)) for step > 0
PyRange(start, stop, step) ==
    LET count == IF stop <= start THEN 0 ELSE ((stop - start - 1) \div step) + 1
    IN  [i \in 1..count |-> start + (i - 1) * step]

\* The grid with rpm_max itself left out (range to rpm_max, not rpm_max + 1).
RpmGridOpen(cfg) ==
    IF cfg.rpm_step <= 0 THEN Raise("ValueError: rpm_step must be > 0")
    ELSE IF cfg.rpm_max <= cfg.rpm_min THEN Raise("ValueError: rpm_max must be > rpm_min")
    ELSE Ok(PyRange(cfg.rpm_min, cfg.rpm_max, cfg.rpm_step))

rpm_grid(cfg) ==
    IF cfg.rpm_step <= 0 THEN Raise("ValueError: rpm_step must be > 0")
    ELSE IF cfg.rpm_max <= cfg.rpm_min THEN Raise("ValueError: rpm_max must be > rpm_min")
    ELSE Ok(PyRange(cfg.rpm_min, cfg.rpm_max + 1, cfg.rpm_step))

_revs_per_power_from_cycle(cycle) ==
    IF StartsWith(Lower(Strip(cycle)), "2") THEN 1 ELSE 2

bsfc_default_g_per_kwh(fuel) ==
    LET f == Lower(Strip(fuel))
    IN  IF f = "diesel" THEN Z(230) ELSE IF f = "e85" THEN Z(320) ELSE Z(270)

fuel_density_kg_per_l(fuel) ==
    LET f == Lower(Strip(fuel))
    IN  IF f = "diesel" THEN Q(832, 1000) ELSE IF f = "e85" THEN Q(785, 1000) ELSE Q(745, 1000)

fuel_flow_lph_from_power_kw(power_kw, bsfc_g_per_kwh, fuel) ==
    IF RLt(power_kw, Z(0)) THEN Raise("ValueError: power_kw must be >= 0")
    ELSE IF RLe(bsfc_g_per_kwh, Z(0)) THEN Raise("ValueError: bsfc_g_per_kwh must be > 0")
    ELSE LET mass_g_per_h  == RMul(bsfc_g_per_kwh, power_kw)
             mass_kg_per_h == RDiv(mass_g_per_h, Z(1000))
         IN  Ok(RDiv(mass_kg_per_h, fuel_density_kg_per_l(fuel)))

\* dict.get(key, default)
Get(dict, key, default) == IF key \in DOMAIN dict THEN dict[key] ELSE default

add_stage5_outputs(result, engine, assumptions) ==
    LET bsfc == IF IsNone(assumptions.bsfc_g_per_kwh)
                THEN bsfc_default_g_per_kwh(assumptions.fuel)
                ELSE assumptions.bsfc_g_per_kwh
        peak_power_kw == Get(result.scalars, "peak_power_kw", Z(0))
        wot    == fuel_flow_lph_from_power_kw(peak_power_kw, bsfc, assumptions.fuel)
        cruise == fuel_flow_lph_from_power_kw(Z(20), bsfc, assumptions.fuel)
        ps     == IF IsNone(engine.stroke_m) THEN Ok(NoneNum)
                  ELSE mean_piston_speed_mps(engine.stroke_m, Z(engine.redline_rpm))
        peak_bmep_kpa == Get(result.scalars, "peak_bmep_kpa", Z(0))
    IN  IF ~wot.ok THEN wot
        ELSE IF ~cruise.ok THEN cruise
        ELSE IF ~ps.ok THEN ps
        ELSE LET fuel_scalars ==
                     ("bsfc_g_per_kwh" :> bsfc) @@ ("fuel_wot_lph_at_peak_power" :> wot.v)
                         @@ ("fuel_cruise_lph_at_20kw" :> cruise.v)
                 ps_scalars ==
                     IF IsNone(engine.stroke_m) THEN EmptyDict
                     ELSE ("piston_speed_mps_at_redline" :> ps.v)
                 ps_issues ==
                     IF IsNone(engine.stroke_m) THEN <<>>
                     ELSE IF RGt(ps.v, Z(25))
                     THEN <<"[WARN] piston_speed: Very high (>25 m/s). Expect durability risk.">>
                     ELSE IF RGt(ps.v, Z(20))
                     THEN <<"[WARN] piston_speed: High (>20 m/s). Racing-ish territory.">>
                     ELSE <<>>
                 bmep_issues ==
                     IF RGt(peak_bmep_kpa, Z(1600))
                     THEN <<"[WARN] bmep: Very high BMEP (>1600 kPa). Likely boosted / highly tuned.">>
                     ELSE IF RGt(peak_bmep_kpa, Z(1200))
                     THEN <<"[WARN] bmep: High BMEP (>1200 kPa). NA engines may not sustain this.">>
                     ELSE <<>>
             IN  Ok(Result(ps_scalars @@ fuel_scalars @@ result.scalars,
                           result.curves,
                           result.issues \o ps_issues \o bmep_issues))

\* max(seq) over a non-empty list, scanning left to right
RECURSIVE PyMaxFrom(_, _, _)
PyMaxFrom(seq, i, best) ==
    IF i > Len(seq) THEN best
    ELSE PyMaxFrom(seq, i + 1, IF RGt(seq[i], best) THEN seq[i] ELSE best)

PyMax(seq) == PyMaxFrom(seq, 2, seq[1])

\* The position of the last element equal to v.
IndexLast(seq, v) == CHOOSE i \in 1..Len(seq) : seq[i] = v /\ \A j \in (i + 1)..Len(seq) : seq[j] # v

\* seq.index(v): position of the first element equal to v
Index(seq, v) == CHOOSE i \in 1..Len(seq) : seq[i] = v /\ \A j \in 1..(i - 1) : seq[j] # v

\* One pass of the sampling loop of analyze_basic_curves (lines 134-143), from
\* the profile factor on.  A callee that raises ends the pass with that exception.
CurveSamplePower(bmep_pa, torque_nm, power_kw) ==
    IF ~power_kw.ok THEN power_kw
    ELSE Ok([bmep_kpa |-> RDiv(bmep_pa, Z(1000)),
             torque_nm |-> torque_nm,
             power_kw |-> power_kw.v])

CurveSampleTorque(rpm, bmep_pa, torque_nm) ==
    IF ~torque_nm.ok THEN torque_nm
    ELSE CurveSamplePower(bmep_pa, torque_nm.v, power_kw_from_torque_rpm(torque_nm.v, Z(rpm)))

CurveSampleBmep(rpm, bmep_pa, disp_m3, revs_per_power) ==
    CurveSampleTorque(rpm, bmep_pa, torque_nm_from_bmep_pa(bmep_pa, disp_m3, revs_per_power))

CurveSampleFactor(rpm, factor, peak_bmep_pa, disp_m3, revs_per_power) ==
    IF ~factor.ok THEN factor
    ELSE CurveSampleBmep(rpm, RMul(peak_bmep_pa, factor.v), disp_m3, revs_per_power)

CurveSampleAt(rpm, x, profile_name, peak_bmep_pa, disp_m3, revs_per_power) ==
    IF ~x.ok THEN x
    ELSE CurveSampleFactor(rpm, normalized_profile(profile_name, x.v), peak_bmep_pa,
                           disp_m3, revs_per_power)

CurveSample(rpm, engine, profile_name, peak_bmep_pa, disp_m3, revs_per_power) ==
    CurveSampleAt(rpm, rpm_fraction(rpm, engine.idle_rpm, engine.redline_rpm),
                  profile_name, peak_bmep_pa, disp_m3, revs_per_power)

\* A list built element by element: every element is computed once.
Tuple(seq) == SubSeq(seq, 1, Len(seq))

IssueStrs(issues) == [i \in 1..Len(issues) |-> IssueStr(issues[i])]

WarnStrs(issues) ==
    LET F[i \in 0..Len(issues)] ==
            IF i = 0 THEN <<>>
            ELSE IF issues[i].level = "WARN" THEN Append(F[i - 1], IssueStr(issues[i]))
            ELSE F[i - 1]
    IN  F[Len(issues)]

\* Lines 145-173 of analyze_basic_curves: the peaks, the Result and the
\* derived outputs, given the sampled curves.
CurvesResult(rpms, bmep_kpa_curve, torque_curve, power_kw_curve, peak_torque_nm, peak_power_kw, engine, assumptions, peak_bmep_kpa, issues, disp_m3) ==
    LET n == Len(rpms)
        peak_torque_rpm == IF n > 0 THEN rpms[Index(torque_curve, peak_torque_nm)] ELSE 0
        peak_power_rpm == IF n > 0 THEN rpms[Index(power_kw_curve, peak_power_kw)] ELSE 0
    IN  add_stage5_outputs(
            Result(("displacement_l" :> RMul(disp_m3, Z(1000)))
                       @@ ("peak_bmep_kpa" :> peak_bmep_kpa)
                       @@ ("peak_torque_nm" :> peak_torque_nm)
                       @@ ("peak_torque_rpm" :> Z(peak_torque_rpm))
                       @@ ("peak_power_kw" :> peak_power_kw)
                       @@ ("peak_power_rpm" :> Z(peak_power_rpm)),
                   ("rpm" :> [i \in 1..n |-> Z(rpms[i])])
                       @@ ("bmep_kpa" :> bmep_kpa_curve)
                       @@ ("torque_nm" :> torque_curve)
                       @@ ("power_kw" :> power_kw_curve),
                   WarnStrs(issues)),
            engine, assumptions)

CurvesPeaks(rpms, bmep_kpa_curve, torque_curve, power_kw_curve, engine, assumptions, peak_bmep_kpa, issues, disp_m3) ==
    CurvesResult(rpms, bmep_kpa_curve, torque_curve, power_kw_curve,
                 IF Len(rpms) > 0 THEN PyMax(torque_curve) ELSE Z(0),
                 IF Len(rpms) > 0 THEN PyMax(power_kw_curve) ELSE Z(0),
                 engine, assumptions, peak_bmep_kpa, issues, disp_m3)

\* Lines 134-143: the loop's outcome is the first exception a pass raises,
\* else the three curves.
CurvesSampled(rpms, samples, engine, assumptions, peak_bmep_kpa, issues, disp_m3) ==
    LET n == Len(rpms)
    IN  IF \E i \in 1..n : ~samples[i].ok
        THEN samples[CHOOSE i \in 1..n :
                        ~samples[i].ok /\ \A j \in 1..(i - 1) : samples[j].ok]
        ELSE CurvesPeaks(rpms,
                         Tuple([i \in 1..n |-> samples[i].v.bmep_kpa]),
                         Tuple([i \in 1..n |-> samples[i].v.torque_nm]),
                         Tuple([i \in 1..n |-> samples[i].v.power_kw]),
                         engine, assumptions, peak_bmep_kpa, issues, disp_m3)

CurvesOver(rpms, profile_name, engine, assumptions, peak_bmep_kpa, issues, disp_m3) ==
    IF ~rpms.ok THEN rpms
    ELSE CurvesSampled(rpms.v,
                       Tuple([i \in 1..Len(rpms.v) |->
                           CurveSample(rpms.v[i], engine, profile_name,
                                       RMul(peak_bmep_kpa, Z(1000)), disp_m3,
                                       _revs_per_power_from_cycle(engine.cycle))]),
                       engine, assumptions, peak_bmep_kpa, issues, disp_m3)

\* Lines 124-173 of analyze_basic_curves: the displacement is resolved.
CurvesFor(engine, assumptions, cfg, peak_bmep_kpa, profile, issues, disp_m3) ==
    CurvesOver(rpm_grid(cfg),
               IF profile # None THEN profile ELSE assumptions.ve_profile,
               engine, assumptions, peak_bmep_kpa, issues, disp_m3)

analyze_basic_curves(engine, assumptions, cfg, peak_bmep_kpa, profile) ==
    LET issues == validate_engine_inputs(Z(engine.cylinders), engine.bore_m, engine.stroke_m,
                                         engine.displacement_m3, Z(engine.idle_rpm),
                                         Z(engine.redline_rpm))
    IN  IF has_errors(issues) THEN Ok(Result(EmptyDict, EmptyDict, IssueStrs(issues)))
        ELSE IF IsNone(engine.displacement_m3)
        THEN IF IsNone(engine.bore_m) \/ IsNone(engine.stroke_m)
             THEN Ok(Result(EmptyDict, EmptyDict,
                            IssueStrs(issues) \o
                            <<"[ERROR] displacement: Cannot compute displacement (need bore_m+stroke_m or displacement_m3).">>))
             ELSE LET d == displacement_m3_from_bore_stroke(engine.bore_m, engine.stroke_m,
                                                            engine.cylinders)
                  IN  IF ~d.ok THEN d
                      ELSE CurvesFor(engine, assumptions, cfg, peak_bmep_kpa, profile, issues, d.v)
        ELSE CurvesFor(engine, assumptions, cfg, peak_bmep_kpa, profile, issues,
                       engine.displacement_m3)

(***************************************************************************)
(* solver.py: match_engine                                                 *)
(***************************************************************************)
\* k * (cbrt)^(1/3), the value of x ** (1.0 / 3.0) scaled by k; 0 ** (1/3) is 0.
CubeRoot(a) == IF a.n = 0 THEN Z(0) ELSE [k |-> Z(1), cbrt |-> a]
IsSurd(v) == DOMAIN v = {"k", "cbrt"}
Scale(r, v) == IF IsSurd(v) THEN [v EXCEPT !.k = RMul(r, v.k)] ELSE RMul(r, v)

\* round(a) to an int, halves to the even neighbour
PyRound(a) ==
    LET f == a.n \div a.d
        twice == 2 * (a.n - f * a.d)
    IN  IF twice < a.d THEN f
        ELSE IF twice > a.d THEN f + 1
        ELSE IF f % 2 = 0 THEN f ELSE f + 1

\* f"{a:.2f}" for a >= 0
Fmt2(a) ==
    LET c == PyRound(RMul(a, Z(100)))
    IN  ToString(c \div 100) \o "." \o (IF c % 100 < 10 THEN "0" ELSE "") \o ToString(c % 100)

MatchResult(engine, peak_bmep_kpa, confidence, assumptions_made) ==
    [engine |-> engine, peak_bmep_kpa |-> peak_bmep_kpa, confidence |-> confidence,
     assumptions_made |-> assumptions_made]

_clamp01(x) == IF RLt(x, Z(0)) THEN Z(0) ELSE IF RGt(x, Z(1)) THEN Z(1) ELSE x

_cycle_denominator(cycle) ==
    LET c == Strip(Lower(IF cycle \in {None, ""} THEN "" ELSE cycle))
    IN  IF Contains(c, "2") THEN RMul(Z(2), Pi) ELSE RMul(Z(4), Pi)

\* The ratio taken as square whatever the profile.
InferRatioSquare(profile) == Z(1)

_infer_ratio_from_profile(profile) ==
    LET p == Strip(Lower(IF profile \in {None, ""} THEN "" ELSE profile))
    IN  IF Contains(p, "top") THEN Q(110, 100)
        ELSE IF Contains(p, "torque") THEN Q(90, 100)
        ELSE Z(1)

_infer_peak_power_rpm(profile, redline) ==
    LET p == Strip(Lower(IF profile \in {None, ""} THEN "" ELSE profile))
    IN  IF Contains(p, "top") THEN PyRound(RMul(Q(95, 100), Z(redline)))
        ELSE IF Contains(p, "torque") THEN PyRound(RMul(Q(80, 100), Z(redline)))
        ELSE PyRound(RMul(Q(88, 100), Z(redline)))

_infer_peak_torque_rpm(profile, redline) ==
    LET p == Strip(Lower(IF profile \in {None, ""} THEN "" ELSE profile))
    IN  IF Contains(p, "top") THEN PyRound(RMul(Q(70, 100), Z(redline)))
        ELSE IF Contains(p, "torque") THEN PyRound(RMul(Q(55, 100), Z(redline)))
        ELSE PyRound(RMul(Q(60, 100), Z(redline)))

_infer_cylinders_from_disp_l(disp_l) ==
    IF RLt(disp_l, Q(11, 10)) THEN 3
    ELSE IF RLt(disp_l, Q(26, 10)) THEN 4
    ELSE IF RLt(disp_l, Q(36, 10)) THEN 6
    ELSE IF RLt(disp_l, Q(55, 10)) THEN 8
    ELSE 12

_torque_nm_from_power_kw(power_kw, rpm) ==
    LET omega == RMul(RMul(Z(2), Pi), Q(rpm, 60))
    IN  IF omega.n = 0 THEN Raise("ZeroDivisionError: float division by zero")
        ELSE Ok(RDiv(RMul(power_kw, Z(1000)), omega))

\* torque * denom / disp / 1000, the two divisions taken as one
_bmep_kpa_from_torque_nm(torque_nm, disp_m3, cycle) ==
    LET denom == _cycle_denominator(cycle)
    IN  IF disp_m3.n = 0 THEN Raise("ZeroDivisionError: float division by zero")
        ELSE Ok(RDiv(RMul(torque_nm, denom), RMul(disp_m3, Z(1000))))

\* <<bore_m, stroke_m>>
_infer_bore_stroke_from_disp(disp_m3, cyl, bore_to_stroke) ==
    LET v_cyl == RDiv(disp_m3, Z(cyl))
        r == bore_to_stroke
        stroke_m == CubeRoot(RDiv(RMul(Z(4), v_cyl), RMul(Pi, RMul(r, r))))
        bore_m == Scale(r, stroke_m)
    IN  <<bore_m, stroke_m>>

\* Lines 126-130: cylinders from the displacement bucket.
MatchCylindersFromDisp(st) ==
    IF ~IsNone(st.disp_m3) /\ st.cyl = 0
    THEN LET disp_l == RMul(st.disp_m3, Z(1000))
             cyl == _infer_cylinders_from_disp_l(disp_l)
         IN  [st EXCEPT !.cyl = cyl,
                        !.conf = RSub(st.conf, Q(15, 100)),
                        !.made = Append(st.made, "Assumed cylinders=" \o ToString(cyl)
                                                     \o " from displacement bucket")]
    ELSE st

\* Lines 132-133: displacement from bore, stroke and cylinders.
MatchDispFromBoreStroke(st) ==
    IF IsNone(st.disp_m3) /\ ~IsNone(st.bore_m) /\ ~IsNone(st.stroke_m) /\ st.cyl # 0
    THEN [st EXCEPT !.disp_m3 =
             RMul(RMul(RMul(RDiv(Pi, Z(4)), RMul(st.bore_m, st.bore_m)), st.stroke_m), Z(st.cyl))]
    ELSE st

\* The bore/stroke inference with its penalty and note left out.
MatchBoreStrokeSilent(st, profile) ==
    IF ~IsNone(st.disp_m3) /\ (IsNone(st.bore_m) \/ IsNone(st.stroke_m))
    THEN LET bs == _infer_bore_stroke_from_disp(st.disp_m3,
                       IF st.cyl = 0 THEN 4 ELSE st.cyl, _infer_ratio_from_profile(profile))
         IN  [st EXCEPT !.cyl = IF st.cyl = 0 THEN 4 ELSE st.cyl,
                        !.bore_m = bs[1], !.stroke_m = bs[2]]
    ELSE st

\* Lines 135-144: bore and stroke from displacement and the profile's ratio.
MatchBoreStrokeFromDisp(st, profile) ==
    IF ~IsNone(st.disp_m3) /\ (IsNone(st.bore_m) \/ IsNone(st.stroke_m))
    THEN LET s1 == IF st.cyl = 0
                   THEN [st EXCEPT !.cyl = 4,
                                   !.conf = RSub(st.conf, Q(20, 100)),
                                   !.made = Append(st.made,
                                       "Assumed cylinders=4 (no cylinder count provided)")]
                   ELSE st
             r == _infer_ratio_from_profile(profile)
             bs == _infer_bore_stroke_from_disp(s1.disp_m3, s1.cyl, r)
         IN  [s1 EXCEPT !.bore_m = bs[1],
                        !.stroke_m = bs[2],
                        !.conf = RSub(s1.conf, Q(20, 100)),
                        !.made = Append(s1.made, "Assumed bore/stroke ratio=" \o Fmt2(r)
                                                     \o " from profile '" \o profile \o "'")]
    ELSE st

\* The missing-geometry step charging the default-cylinders penalty as well
\* when the cylinder count is unknown too.
MatchMissingGeometryAndCylinders(st) ==
    IF IsNone(st.disp_m3) /\ (IsNone(st.bore_m) \/ IsNone(st.stroke_m))
    THEN LET s1 == IF st.cyl = 0
                   THEN [st EXCEPT !.conf = RSub(st.conf, Q(20, 100)),
                                   !.made = Append(st.made,
                                       "Assumed cylinders=4 (no cylinder count provided)")]
                   ELSE st
         IN  [s1 EXCEPT !.conf = RSub(s1.conf, Q(40, 100)),
                        !.made = Append(s1.made,
                            "Missing geometry: provide --disp-cc OR (--cyl + --bore-mm + --stroke-mm)")]
    ELSE st

\* Lines 146-149: geometry cannot be solved.
MatchMissingGeometry(st) ==
    IF IsNone(st.disp_m3) /\ (IsNone(st.bore_m) \/ IsNone(st.stroke_m))
    THEN [st EXCEPT !.conf = RSub(st.conf, Q(40, 100)),
                    !.made = Append(st.made,
                        "Missing geometry: provide --disp-cc OR (--cyl + --bore-mm + --stroke-mm)")]
    ELSE st

\* The BMEP step with the power target tried before the torque target.
MatchInferBmepPowerFirst(st, cycle, profile, redline, target_power_kw, target_power_rpm, target_torque_nm, peak_bmep_kpa) ==
    IF ~IsNone(peak_bmep_kpa) THEN Ok([st EXCEPT !.bmep = peak_bmep_kpa])
    ELSE IF ~IsNone(target_power_kw) /\ ~IsNone(st.disp_m3)
    THEN LET rp == IF IsNone(target_power_rpm) THEN _infer_peak_power_rpm(profile, redline)
                   ELSE target_power_rpm.n
             s1 == IF IsNone(target_power_rpm)
                   THEN [st EXCEPT !.conf = RSub(st.conf, Q(10, 100)),
                                   !.made = Append(st.made,
                                       "Assumed peak power rpm=" \o ToString(rp)
                                           \o " from profile '" \o profile \o "'")]
                   ELSE st
             tq == _torque_nm_from_power_kw(target_power_kw, rp)
         IN  IF ~tq.ok THEN tq
             ELSE LET b == _bmep_kpa_from_torque_nm(tq.v, s1.disp_m3, cycle)
                  IN  IF ~b.ok THEN b ELSE Ok([s1 EXCEPT !.bmep = b.v])
    ELSE IF ~IsNone(target_torque_nm) /\ ~IsNone(st.disp_m3)
    THEN LET b == _bmep_kpa_from_torque_nm(target_torque_nm, st.disp_m3, cycle)
         IN  IF ~b.ok THEN b ELSE Ok([st EXCEPT !.bmep = b.v])
    ELSE Ok([st EXCEPT !.bmep = Z(1000),
                       !.conf = RSub(st.conf, Q(35, 100)),
                       !.made = Append(st.made,
                           "No target power/torque provided; defaulted peak_bmep_kpa=1000")])

\* Lines 152-169: the peak BMEP, with the locals it updates.
MatchInferBmep(st, cycle, profile, redline, target_power_kw, target_power_rpm, target_torque_nm, peak_bmep_kpa) ==
    IF ~IsNone(peak_bmep_kpa) THEN Ok([st EXCEPT !.bmep = peak_bmep_kpa])
    ELSE IF ~IsNone(target_torque_nm) /\ ~IsNone(st.disp_m3)
    THEN LET b == _bmep_kpa_from_torque_nm(target_torque_nm, st.disp_m3, cycle)
         IN  IF ~b.ok THEN b ELSE Ok([st EXCEPT !.bmep = b.v])
    ELSE IF ~IsNone(target_power_kw) /\ ~IsNone(st.disp_m3)
    THEN LET rp == IF IsNone(target_power_rpm) THEN _infer_peak_power_rpm(profile, redline)
                   ELSE target_power_rpm.n
             s1 == IF IsNone(target_power_rpm)
                   THEN [st EXCEPT !.conf = RSub(st.conf, Q(10, 100)),
                                   !.made = Append(st.made,
                                       "Assumed peak power rpm=" \o ToString(rp)
                                           \o " from profile '" \o profile \o "'")]
                   ELSE st
             tq == _torque_nm_from_power_kw(target_power_kw, rp)
         IN  IF ~tq.ok THEN tq
             ELSE LET b == _bmep_kpa_from_torque_nm(tq.v, s1.disp_m3, cycle)
                  IN  IF ~b.ok THEN b ELSE Ok([s1 EXCEPT !.bmep = b.v])
    ELSE Ok([st EXCEPT !.bmep = Z(1000),
                       !.conf = RSub(st.conf, Q(35, 100)),
                       !.made = Append(st.made,
                           "No target power/torque provided; defaulted peak_bmep_kpa=1000")])

\* Lines 172-175: the informational peak-torque RPM.
MatchTorqueRpmNote(st, profile, redline, target_torque_nm, target_torque_rpm) ==
    IF ~IsNone(target_torque_nm) /\ IsNone(target_torque_rpm)
    THEN [st EXCEPT !.conf = RSub(st.conf, Q(5, 100)),
                    !.made = Append(st.made,
                        "Assumed peak torque rpm="
                            \o ToString(_infer_peak_torque_rpm(profile, redline))
                            \o " from profile '" \o profile \o "' (informational only)")]
    ELSE st

\* Lines 177-195: the clamp and the returned MatchResult.
MatchFinish(st, cycle, idle, redline) ==
    Ok(MatchResult(EngineSpec(IF st.cyl # 0 THEN st.cyl ELSE 4, cycle, st.bore_m,
                              st.stroke_m, st.disp_m3, idle, redline),
                   st.bmep, _clamp01(st.conf), st.made))

\* Lines 171-195, reached unless the BMEP inference raised.
MatchAfterBmep(r, cycle, idle, redline, profile, target_torque_nm, target_torque_rpm) ==
    IF ~r.ok THEN r
    ELSE MatchFinish(MatchTorqueRpmNote(r.v, profile, redline, target_torque_nm,
                                        target_torque_rpm),
                     cycle, idle, redline)

match_engine(engine, assumptions, target_power_kw, target_power_rpm, target_torque_nm, target_torque_rpm, peak_bmep_kpa) ==
    LET cycle == IF engine.cycle \in {None, ""} THEN "4-stroke" ELSE engine.cycle
        idle == IF engine.idle_rpm = 0 THEN 800 ELSE engine.idle_rpm
        redline == IF engine.redline_rpm = 0 THEN 7000 ELSE engine.redline_rpm
        profile == IF assumptions.ve_profile \in {None, ""} THEN "balanced"
                   ELSE assumptions.ve_profile
        s0 == [cyl |-> engine.cylinders, bore_m |-> engine.bore_m,
               stroke_m |-> engine.stroke_m, disp_m3 |-> engine.displacement_m3,
               conf |-> Z(1), made |-> <<>>, bmep |-> NoneNum]
        s1 == MatchCylindersFromDisp(s0)
        s2 == MatchDispFromBoreStroke(s1)
        s3 == MatchBoreStrokeFromDisp(s2, profile)
        s4 == MatchMissingGeometry(s3)
    IN  MatchAfterBmep(MatchInferBmep(s4, cycle, profile, redline, target_power_kw,
                                      target_power_rpm, target_torque_nm, peak_bmep_kpa),
                       cycle, idle, redline, profile, target_torque_nm, target_torque_rpm)

(***************************************************************************)
(* solver.py: design_candidates                                            *)
(***************************************************************************)
DesignCandidate(engine, assumptions, run_config, peak_bmep_kpa, result, score, notes) ==
    [engine |-> engine, assumptions |-> assumptions, run_config |-> run_config,
     peak_bmep_kpa |-> peak_bmep_kpa, result |-> result, score |-> score, notes |-> notes]

\* The for loop of _interp from (1-based) index i on.
RECURSIVE InterpScan(_, _, _, _)
InterpScan(xs, ys, x, i) ==
    IF i > Len(xs) THEN ys[Len(ys)]
    ELSE IF RLe(x, xs[i])
    THEN LET t == RDiv(RSub(x, xs[i - 1]), RSub(xs[i], xs[i - 1]))
         IN  RAdd(ys[i - 1], RMul(t, RSub(ys[i], ys[i - 1])))
    ELSE InterpScan(xs, ys, x, i + 1)

_interp(xs, ys, x) ==
    IF xs = <<>> THEN Z(0)
    ELSE IF RLe(x, xs[1]) THEN ys[1]
    ELSE IF RGe(x, xs[Len(xs)]) THEN ys[Len(ys)]
    ELSE InterpScan(xs, ys, x, 2)

Floor(a) == a.n \div a.d

\* max(a, b) of two floats: b only when it is strictly greater.  The integer
\* parts are compared first so that 1e-9 needs no cross-multiplication.
PyMax2(a, b) ==
    IF Floor(b) > Floor(a) THEN b
    ELSE IF Floor(b) < Floor(a) THEN a
    ELSE IF RGt(b, a) THEN b ELSE a

\* bool(x) of an Optional number
Truthy(x) == ~IsNone(x) /\ x.n # 0

\* The outcome of one pass of the grid loop: continue, or a candidate appended.
Continue == [ok |-> TRUE, kept |-> FALSE]
Keep(c) == [ok |-> TRUE, kept |-> TRUE, v |-> c]
IsKept(o) == o.kept

\* The score with the RPM error at full weight instead of 0.3.
DesignScoreUnweighted(scalars, target_power_kw, target_power_rpm, disp_cc, cyl) ==
    LET peak_power == Get(scalars, "peak_power_kw", Z(0))
        peak_power_rpm == Get(scalars, "peak_power_rpm", Z(0))
        power_err == RDiv(RAbs(RSub(peak_power, target_power_kw)), target_power_kw)
        rpm_err == IF Truthy(target_power_rpm)
                   THEN RDiv(RAbs(RSub(peak_power_rpm, target_power_rpm)), target_power_rpm)
                   ELSE Z(0)
        size_pen == RAdd(RMul(RDiv(Z(disp_cc), Z(1000)), Q(2, 100)), RMul(Z(cyl), Q(1, 100)))
    IN  RAdd(RAdd(power_err, rpm_err), size_pen)

\* Lines 309-324: the score of a candidate, lower is better.
DesignScore(scalars, target_power_kw, target_power_rpm, disp_cc, cyl) ==
    LET peak_power == Get(scalars, "peak_power_kw", Z(0))
        peak_power_rpm == Get(scalars, "peak_power_rpm", Z(0))
        power_err == RDiv(RAbs(RSub(peak_power, target_power_kw)),
                          PyMax2(target_power_kw, Q(1, 1000000000)))
        rpm_err == IF Truthy(target_power_rpm)
                   THEN RDiv(RAbs(RSub(peak_power_rpm, target_power_rpm)),
                             PyMax2(target_power_rpm, Z(1)))
                   ELSE Z(0)
        size_pen == RAdd(RMul(RDiv(Z(disp_cc), Z(1000)), Q(2, 100)), RMul(Z(cyl), Q(1, 100)))
    IN  RAdd(RAdd(RMul(power_err, Z(1)), RMul(rpm_err, Q(3, 10))), size_pen)

\* Lines 301-336: the rerun at the scaled BMEP, the piston-speed ceiling, the append.
DesignRescored(kw, disp_cc, cyl, engine, assumptions, cfg, peak_bmep, res) ==
    IF ~res.ok THEN res
    ELSE IF DOMAIN res.v.curves = {} THEN Continue
    ELSE IF /\ RGt(kw.piston_speed_max_mps, Z(0))
            /\ RGt(Get(res.v.scalars, "piston_speed_mps_at_redline", Z(0)),
                   kw.piston_speed_max_mps)
    THEN Continue
    ELSE Keep(DesignCandidate(engine, assumptions, cfg, peak_bmep, res.v,
                              DesignScore(res.v.scalars, kw.target_power_kw,
                                          kw.target_power_rpm, disp_cc, cyl),
                              <<"Assumed VE profile='" \o kw.profile \o "'",
                                "Scaled peak BMEP from a 1000 kPa base run">>))

\* The rerun without the BMEP ceiling.
DesignUnbounded(kw, disp_cc, cyl, engine, assumptions, cfg, peak_bmep) ==
    DesignRescored(kw, disp_cc, cyl, engine, assumptions, cfg, peak_bmep,
                   analyze_basic_curves(engine, assumptions, cfg, peak_bmep, kw.profile))

\* Lines 294-299: the BMEP ceiling, checked before the rerun.
DesignBounded(kw, disp_cc, cyl, engine, assumptions, cfg, peak_bmep) ==
    IF RGt(peak_bmep, kw.bmep_max_kpa) THEN Continue
    ELSE DesignRescored(kw, disp_cc, cyl, engine, assumptions, cfg, peak_bmep,
                        analyze_basic_curves(engine, assumptions, cfg, peak_bmep, kw.profile))

\* The rerun at the base run's 1000 kPa, not scaled to the target power.
DesignUnscaled(kw, disp_cc, cyl, engine, assumptions, cfg, ref_power) ==
    IF RLe(ref_power, Z(0)) THEN Continue
    ELSE DesignBounded(kw, disp_cc, cyl, engine, assumptions, cfg, Z(1000))

\* Lines 290-295: the scale that takes the base run to the target power.
DesignScaled(kw, disp_cc, cyl, engine, assumptions, cfg, ref_power) ==
    IF RLe(ref_power, Z(0)) THEN Continue
    ELSE DesignBounded(kw, disp_cc, cyl, engine, assumptions, cfg,
                       RMul(Z(1000), RDiv(kw.target_power_kw, ref_power)))

\* Lines 281-290: the base run's curves and the reference power.
DesignBase(kw, disp_cc, cyl, engine, assumptions, cfg, base) ==
    IF ~base.ok THEN base
    ELSE IF DOMAIN base.v.curves = {} THEN Continue
    ELSE IF Get(base.v.curves, "rpm", <<>>) = <<>> \/ Get(base.v.curves, "power_kw", <<>>) = <<>>
    THEN Continue
    ELSE DesignScaled(kw, disp_cc, cyl, engine, assumptions, cfg,
                      _interp(base.v.curves["rpm"], base.v.curves["power_kw"],
                              IF Truthy(kw.target_power_rpm) THEN kw.target_power_rpm
                              ELSE Get(base.v.scalars, "peak_power_rpm", Z(kw.redline_rpm))))

\* Lines 279-280: the base run at 1000 kPa.
DesignEngine(kw, disp_cc, cyl, engine, assumptions, cfg) ==
    DesignBase(kw, disp_cc, cyl, engine, assumptions, cfg,
               analyze_basic_curves(engine, assumptions, cfg, Z(1000), kw.profile))

\* One pass of the grid loop with an engine that has a bore and a stroke.
DesignComboWithStroke(kw, assumptions, cfg, disp_cc, cyl) ==
    DesignEngine(kw, disp_cc, cyl,
                 EngineSpec(cyl, kw.cycle, Q(80, 1000), Q(1, 2), Q(disp_cc, 1000000), 800,
                            kw.redline_rpm),
                 assumptions, cfg)

\* Lines 264-336: one pass of the grid loop.
DesignCombo(kw, assumptions, cfg, disp_cc, cyl) ==
    DesignEngine(kw, disp_cc, cyl,
                 EngineSpec(cyl, kw.cycle, NoneNum, NoneNum, Q(disp_cc, 1000000), 800,
                            kw.redline_rpm),
                 assumptions, cfg)

\* The (disp_cc, cyl) pairs in the order the nested loops visit them.
DesignGrid(disps, cyls) ==
    [k \in 1..(Len(disps) * Len(cyls)) |->
        <<disps[((k - 1) \div Len(cyls)) + 1], cyls[((k - 1) % Len(cyls)) + 1]>>]

\* list.sort(key=lambda c: c.score): stable, ascending.
RECURSIVE InsertByScore(_, _)
InsertByScore(sorted, c) ==
    IF sorted = <<>> THEN <<c>>
    ELSE LET last == sorted[Len(sorted)]
         IN  IF RLe(last.score, c.score) THEN Append(sorted, c)
             ELSE Append(InsertByScore(SubSeq(sorted, 1, Len(sorted) - 1), c), last)

\* The list left in its append order.
UnsortedByScore(out) == out

RECURSIVE SortedByScore(_)
SortedByScore(out) ==
    IF out = <<>> THEN <<>>
    ELSE InsertByScore(SortedByScore(SubSeq(out, 1, Len(out) - 1)), out[Len(out)])

\* out[: n] for n >= 0
Prefix(seq, n) == SubSeq(seq, 1, IF n < Len(seq) THEN n ELSE Len(seq))

\* The candidates appended to out, in append order.
Appended(passes) ==
    [i \in 1..Len(SelectSeq(passes, IsKept)) |-> SelectSeq(passes, IsKept)[i].v]

\* Lines 338-339: sort and cut, unless a pass raised.
DesignRanked(passes, top_n) ==
    IF \E i \in 1..Len(passes) : ~passes[i].ok
    THEN passes[CHOOSE i \in 1..Len(passes) :
                    ~passes[i].ok /\ \A j \in 1..(i - 1) : passes[j].ok]
    ELSE Ok(Prefix(SortedByScore(Appended(passes)), IF top_n > 1 THEN top_n ELSE 1))

\* Lines 252-264: the grid the loops walk.
DesignGridOf(kw) ==
    DesignGrid(PyRange(kw.disp_min_cc, kw.disp_max_cc + 1, kw.disp_step_cc),
               IF kw.cylinders_list.given THEN kw.cylinders_list.list ELSE <<3, 4, 6, 8>>)

\* Lines 261-336: the passes of the grid loop, in order.
DesignPasses(kw, assumptions, cfg, grid) ==
    Tuple([k \in 1..Len(grid) |-> DesignCombo(kw, assumptions, cfg, grid[k][1], grid[k][2])])

design_candidates(kw) ==
    IF RLe(kw.target_power_kw, Z(0)) THEN Ok(<<>>)
    ELSE IF kw.disp_step_cc = 0 THEN Raise("ValueError: range() arg 3 must not be zero")
    ELSE DesignRanked(DesignPasses(kw,
                                   Assumptions(kw.profile, kw.fuel, kw.bsfc_g_per_kwh),
                                   RunConfig(1000, kw.redline_rpm, 100),
                                   DesignGridOf(kw)),
                      kw.top_n)

(***************************************************************************)
(* vehicle.py                                                              *)
(***************************************************************************)
G == Q(980665, 100000)

DEFAULT_RHO == Q(1225, 1000)
DEFAULT_CRR == Q(12, 1000)
DEFAULT_DRIVETRAIN_EFF == Q(90, 100)

speed_mps_from_rpm(rpm, gear_ratio, final_drive, tire_radius_m) ==
    IF RLt(rpm, Z(0)) THEN Raise("ValueError: rpm must be >= 0")
    ELSE IF RLe(gear_ratio, Z(0)) \/ RLe(final_drive, Z(0)) \/ RLe(tire_radius_m, Z(0))
    THEN Raise("ValueError: gear_ratio, final_drive, tire_radius_m must be > 0")
    ELSE Ok(RDiv(RMul(RDiv(rpm, RMul(gear_ratio, final_drive)),
                      RMul(RMul(Z(2), Pi), tire_radius_m)),
                 Z(60)))

\* Lines 45-49: the aerodynamic and the rolling power at speed v_mps.
RoadLoad(v_mps, cda, f_rr, air_density_kg_m3) ==
    RAdd(RMul(RMul(RMul(Q(1, 2), air_density_kg_m3), cda), RMul(v_mps, RMul(v_mps, v_mps))),
         RMul(f_rr, v_mps))

road_load_power_w(v_mps, mass_kg, cd, frontal_area_m2, crr, air_density_kg_m3) ==
    IF RLt(v_mps, Z(0)) THEN Raise("ValueError: v_mps must be >= 0")
    ELSE IF RLe(mass_kg, Z(0)) \/ RLe(cd, Z(0)) \/ RLe(frontal_area_m2, Z(0))
    THEN Raise("ValueError: mass_kg, cd, frontal_area_m2 must be > 0")
    ELSE IF RLe(crr, Z(0)) \/ RLe(air_density_kg_m3, Z(0))
    THEN Raise("ValueError: crr, air_density_kg_m3 must be > 0")
    ELSE Ok(RoadLoad(v_mps, RMul(cd, frontal_area_m2), RMul(RMul(crr, mass_kg), G),
                     air_density_kg_m3))

\* min(a, b) and max over a list, as Python evaluates them.
PyMin2(a, b) == IF RLt(b, a) THEN b ELSE a

RECURSIVE PyMaxNumFrom(_, _, _)
PyMaxNumFrom(seq, i, best) ==
    IF i > Len(seq) THEN best
    ELSE PyMaxNumFrom(seq, i + 1, IF RGt(seq[i], best) THEN seq[i] ELSE best)

PyMaxNum(seq) == PyMaxNumFrom(seq, 2, seq[1])

\* Lines 84-86: the best pair before the loops.
NoBest == [top_speed_kph |-> Z(0), top_speed_gear |-> 0, top_speed_rpm |-> Z(0)]

\* Every pair within the RPM cap replaces a slower best, feasible or not.
TopSpeedAnyPair(best, gi, rpm, p_avail_w, p_req_w, v_mps) ==
    IF ~p_req_w.ok THEN p_req_w
    ELSE IF RGt(RMul(v_mps, Q(36, 10)), best.v.top_speed_kph)
    THEN Ok([top_speed_kph |-> RMul(v_mps, Q(36, 10)), top_speed_gear |-> gi,
             top_speed_rpm |-> rpm])
    ELSE best

\* The feasibility test reversed: available power at most the required power.
TopSpeedInfeasible(best, gi, rpm, p_avail_w, p_req_w, v_mps) ==
    IF ~p_req_w.ok THEN p_req_w
    ELSE IF RLe(p_avail_w, p_req_w.v) /\ RGt(RMul(v_mps, Q(36, 10)), best.v.top_speed_kph)
    THEN Ok([top_speed_kph |-> RMul(v_mps, Q(36, 10)), top_speed_gear |-> gi,
             top_speed_rpm |-> rpm])
    ELSE best

\* Lines 102-107: a feasible pair replaces the best only when strictly faster.
TopSpeedFeasible(best, gi, rpm, p_avail_w, p_req_w, v_mps) ==
    IF ~p_req_w.ok THEN p_req_w
    ELSE IF RGe(p_avail_w, p_req_w.v) /\ RGt(RMul(v_mps, Q(36, 10)), best.v.top_speed_kph)
    THEN Ok([top_speed_kph |-> RMul(v_mps, Q(36, 10)), top_speed_gear |-> gi,
             top_speed_rpm |-> rpm])
    ELSE best

\* Lines 93-101: the power available and the power required at the pair's speed.
TopSpeedAt(best, gi, rpm, p_kw, v_mps, vehicle, eff, rho, crr) ==
    IF ~v_mps.ok THEN v_mps
    ELSE TopSpeedFeasible(best, gi, rpm, RMul(RMul(p_kw, Z(1000)), eff),
                          road_load_power_w(v_mps.v, vehicle.mass_kg, vehicle.cd,
                                            vehicle.frontal_area_m2, crr, rho),
                          v_mps.v)

\* Lines 90-107: the body of the inner loop for one (gear, sample) pair.
TopSpeedPair(best, gi, gr, rpm, p_kw, rpm_cap, vehicle, drivetrain, eff, rho, crr) ==
    IF RGt(rpm, rpm_cap) THEN best
    ELSE TopSpeedAt(best, gi, rpm, p_kw,
                    speed_mps_from_rpm(rpm, gr, drivetrain.final_drive,
                                       drivetrain.tire_radius_m),
                    vehicle, eff, rho, crr)

\* Lines 88-89: the pairs from the k-th on, gears outermost, zip(rpms, power_kw)
\* innermost (n is the length of the zip).
RECURSIVE TopSpeedScan(_, _, _, _, _, _, _, _, _, _, _)
TopSpeedScan(best, k, n, gears, rpms, power_kw, rpm_cap, vehicle, drivetrain, eff, rho) ==
    IF ~best.ok \/ k > Len(gears) * n THEN best
    ELSE TopSpeedScan(TopSpeedPair(best, ((k - 1) \div n) + 1, gears[((k - 1) \div n) + 1],
                                   rpms[((k - 1) % n) + 1], power_kw[((k - 1) % n) + 1],
                                   rpm_cap, vehicle, drivetrain, eff, rho,
                                   IF IsNone(vehicle.crr) THEN DEFAULT_CRR ELSE vehicle.crr),
                      k + 1, n, gears, rpms, power_kw, rpm_cap, vehicle, drivetrain, eff, rho)

\* Lines 109-116: the returned dict.
TopSpeedDict(best, eff, rho, crr) ==
    IF ~best.ok THEN best
    ELSE Ok([top_speed_kph |-> best.v.top_speed_kph, top_speed_gear |-> Z(best.v.top_speed_gear),
             top_speed_rpm |-> best.v.top_speed_rpm, drivetrain_eff |-> eff, rho |-> rho,
             crr |-> crr])

\* Lines 76-107 with the defaults resolved.
TopSpeedLoops(rpms, power_kw, rpm_cap, vehicle, drivetrain, eff, rho, crr) ==
    TopSpeedDict(TopSpeedScan(Ok(NoBest), 1,
                              IF Len(rpms) < Len(power_kw) THEN Len(rpms) ELSE Len(power_kw),
                              drivetrain.gears.list, rpms, power_kw, rpm_cap, vehicle,
                              drivetrain, eff, rho),
                 eff, rho, crr)

estimate_top_speed(result, engine, vehicle, drivetrain) ==
    IF \/ ~drivetrain.gears.given
       \/ IsNone(drivetrain.final_drive)
       \/ IsNone(drivetrain.tire_radius_m)
    THEN Raise("ValueError: drivetrain.gears, final_drive, tire_radius_m required")
    ELSE IF IsNone(vehicle.mass_kg) \/ IsNone(vehicle.cd) \/ IsNone(vehicle.frontal_area_m2)
    THEN Raise("ValueError: vehicle.mass_kg, cd, frontal_area_m2 required")
    ELSE IF "rpm" \notin DOMAIN result.curves \/ "power_kw" \notin DOMAIN result.curves
    THEN Raise("ValueError: Result must contain curves: rpm, power_kw")
    ELSE TopSpeedLoops(result.curves["rpm"], result.curves["power_kw"],
                       IF result.curves["rpm"] = <<>> THEN Z(engine.redline_rpm)
                       ELSE PyMin2(Z(engine.redline_rpm), PyMaxNum(result.curves["rpm"])),
                       vehicle, drivetrain,
                       IF IsNone(drivetrain.drivetrain_efficiency) THEN DEFAULT_DRIVETRAIN_EFF
                       ELSE drivetrain.drivetrain_efficiency,
                       IF IsNone(vehicle.air_density_kg_m3) THEN DEFAULT_RHO
                       ELSE vehicle.air_density_kg_m3,
                       IF IsNone(vehicle.crr) THEN DEFAULT_CRR ELSE vehicle.crr)

(***************************************************************************)
(* shifts.py                                                               *)
(***************************************************************************)
\* The for loop of interp_1d from segment i on.
RECURSIVE Interp1dScan(_, _, _, _)
Interp1dScan(xs, ys, x, i) ==
    IF i >= Len(xs) THEN ys[Len(ys)]
    ELSE IF RLe(xs[i], x) /\ RLe(x, xs[i + 1])
    THEN IF xs[i + 1] = xs[i] THEN ys[i]
         ELSE RAdd(ys[i], RMul(RDiv(RSub(x, xs[i]), RSub(xs[i + 1], xs[i])),
                               RSub(ys[i + 1], ys[i])))
    ELSE Interp1dScan(xs, ys, x, i + 1)

interp_1d(xs, ys, x) ==
    IF xs = <<>> \/ Len(xs) # Len(ys)
    THEN Raise("ValueError: xs and ys must be same non-zero length")
    ELSE IF RLe(x, xs[1]) THEN Ok(ys[1])
    ELSE IF RGe(x, xs[Len(xs)]) THEN Ok(ys[Len(ys)])
    ELSE Ok(Interp1dScan(xs, ys, x, 1))

\* int(x) of a float: truncation towards zero.
PyInt(a) == IF a.n >= 0 THEN a.n \div a.d ELSE -((-a.n) \div a.d)

RECURSIVE PyMinNumFrom(_, _, _)
PyMinNumFrom(seq, i, best) ==
    IF i > Len(seq) THEN best
    ELSE PyMinNumFrom(seq, i + 1, IF RLt(seq[i], best) THEN seq[i] ELSE best)

PyMinNum(seq) == PyMinNumFrom(seq, 2, seq[1])

\* The outcome of the search for a shift point: none, or the pair (r, r_after).
NoChoice == [ok |-> TRUE, chosen |-> FALSE]
Chosen(r, r_after) == [ok |-> TRUE, chosen |-> TRUE, r |-> r, r_after |-> r_after]

\* The first sample, from the k-th on, that passes the tests, as the search
\* would return it without the wheel-torque comparison.
RECURSIVE UpshiftAnyInWindow(_, _, _, _, _, _, _, _)
UpshiftAnyInWindow(rpms, tq, g1, g2, ratio_drop, rpm_min, rpm_max, k) ==
    IF k > Len(rpms) THEN NoChoice
    ELSE IF RLt(rpms[k], Z(rpm_min)) \/ RGt(rpms[k], Z(rpm_max))
    THEN UpshiftAnyInWindow(rpms, tq, g1, g2, ratio_drop, rpm_min, rpm_max, k + 1)
    ELSE IF \/ RLt(RMul(rpms[k], ratio_drop), Z(rpm_min))
            \/ RGt(RMul(rpms[k], ratio_drop), Z(rpm_max))
    THEN UpshiftAnyInWindow(rpms, tq, g1, g2, ratio_drop, rpm_min, rpm_max, k + 1)
    ELSE Chosen(rpms[k], RMul(rpms[k], ratio_drop))

\* Lines 61-69: the wheel torques before and after the shift at r.
UpshiftBeneficial(t1, t2, g1, g2) ==
    RGe(RMul(t2.v, g2), RMul(t1.v, g1))

\* Lines 53-69: the search from the k-th sample on.
RECURSIVE UpshiftSearch(_, _, _, _, _, _, _, _)
UpshiftSearch(rpms, tq, g1, g2, ratio_drop, rpm_min, rpm_max, k) ==
    IF k > Len(rpms) THEN NoChoice
    ELSE IF RLt(rpms[k], Z(rpm_min)) \/ RGt(rpms[k], Z(rpm_max))
    THEN UpshiftSearch(rpms, tq, g1, g2, ratio_drop, rpm_min, rpm_max, k + 1)
    ELSE IF \/ RLt(RMul(rpms[k], ratio_drop), Z(rpm_min))
            \/ RGt(RMul(rpms[k], ratio_drop), Z(rpm_max))
    THEN UpshiftSearch(rpms, tq, g1, g2, ratio_drop, rpm_min, rpm_max, k + 1)
    ELSE IF ~interp_1d(rpms, tq, rpms[k]).ok THEN interp_1d(rpms, tq, rpms[k])
    ELSE IF UpshiftBeneficial(interp_1d(rpms, tq, rpms[k]),
                              interp_1d(rpms, tq, RMul(rpms[k], ratio_drop)), g1, g2)
    THEN Chosen(rpms[k], RMul(rpms[k], ratio_drop))
    ELSE UpshiftSearch(rpms, tq, g1, g2, ratio_drop, rpm_min, rpm_max, k + 1)

\* Lines 78-89: the row, with the speed at the shift when the tire radius is known.
UpshiftRowOf(i, r, r_after, g1, drivetrain) ==
    IF IsNone(drivetrain.tire_radius_m)
    THEN Ok([from_gear |-> Z(i), to_gear |-> Z(i + 1), upshift_rpm |-> r,
             post_shift_rpm |-> r_after])
    ELSE IF ~speed_mps_from_rpm(r, g1, drivetrain.final_drive, drivetrain.tire_radius_m).ok
    THEN speed_mps_from_rpm(r, g1, drivetrain.final_drive, drivetrain.tire_radius_m)
    ELSE Ok([from_gear |-> Z(i), to_gear |-> Z(i + 1), upshift_rpm |-> r,
             post_shift_rpm |-> r_after,
             speed_kph_at_shift |->
                 RMul(speed_mps_from_rpm(r, g1, drivetrain.final_drive,
                                         drivetrain.tire_radius_m).v, Q(36, 10))])

\* The shift point left at the first sampled RPM when nothing was chosen.
UpshiftDefaultFirst(i, found, ratio_drop, rpms, rpm_max, g1, drivetrain) ==
    IF ~found.ok THEN found
    ELSE IF found.chosen THEN UpshiftRowOf(i, found.r, found.r_after, g1, drivetrain)
    ELSE UpshiftRowOf(i, rpms[1], RMul(rpms[1], ratio_drop), g1, drivetrain)

\* Lines 71-76: the chosen pair, or the top of the window when nothing was chosen.
UpshiftDefault(i, found, ratio_drop, rpms, rpm_max, g1, drivetrain) ==
    IF ~found.ok THEN found
    ELSE IF found.chosen THEN UpshiftRowOf(i, found.r, found.r_after, g1, drivetrain)
    ELSE UpshiftRowOf(i, Z(rpm_max), RMul(Z(rpm_max), ratio_drop), g1, drivetrain)

\* Lines 47-91: the row of the boundary between the i-th and the next gear
\* (i counted from 1).
UpshiftBoundary(i, g1, g2, rpms, tq, rpm_min, rpm_max, drivetrain) ==
    IF g1.n = 0 THEN Raise("ZeroDivisionError: float division by zero")
    ELSE UpshiftDefault(i, UpshiftSearch(rpms, tq, g1, g2, RDiv(g2, g1), rpm_min, rpm_max, 1),
                        RDiv(g2, g1), rpms, rpm_max, g1, drivetrain)

\* Lines 46-91: the rows from the i-th boundary on, appended to out.
RECURSIVE UpshiftRows(_, _, _, _, _, _, _, _)

\* Line 91: out.append(row), then the next boundary; a raise ends the loop.
UpshiftAppend(out, i, gears, rpms, tq, rpm_min, rpm_max, drivetrain, row) ==
    IF ~row.ok THEN row
    ELSE UpshiftRows(Append(out, row.v), i + 1, gears, rpms, tq, rpm_min, rpm_max, drivetrain)

UpshiftRows(out, i, gears, rpms, tq, rpm_min, rpm_max, drivetrain) ==
    IF i > Len(gears) - 1 THEN Ok(out)
    ELSE UpshiftAppend(out, i, gears, rpms, tq, rpm_min, rpm_max, drivetrain,
                       UpshiftBoundary(i, gears[i], gears[i + 1], rpms, tq, rpm_min, rpm_max,
                                       drivetrain))

recommend_upshifts(result, engine, drivetrain) ==
    IF ~drivetrain.gears.given \/ IsNone(drivetrain.final_drive)
    THEN Raise("ValueError: drivetrain.gears and final_drive required")
    ELSE IF "rpm" \notin DOMAIN result.curves \/ "torque_nm" \notin DOMAIN result.curves
    THEN Raise("ValueError: Result must contain curves: rpm, torque_nm")
    ELSE IF result.curves["rpm"] = <<>> THEN Raise("ValueError: min() arg is an empty sequence")
    ELSE UpshiftRows(<<>>, 1, drivetrain.gears.list, result.curves["rpm"],
                     result.curves["torque_nm"],
                     IF PyInt(PyMinNum(result.curves["rpm"])) > engine.idle_rpm
                     THEN PyInt(PyMinNum(result.curves["rpm"])) ELSE engine.idle_rpm,
                     IF PyInt(PyMaxNum(result.curves["rpm"])) < engine.redline_rpm
                     THEN PyInt(PyMaxNum(result.curves["rpm"])) ELSE engine.redline_rpm,
                     drivetrain)

(***************************************************************************)
(* Specification of the profile evaluator: inputs drawn by Init, one call. *)
(***************************************************************************)
\* x = k / XDen for k in -XOver .. XDen + XOver
XDen == 60
XOver == 3

ProfileNames == {"torque_biased", "balanced", "top_end", "sporty", ""}

ProfileCalls ==
    {[fn |-> "normalized_profile", profile |-> p, x |-> Q(k, XDen)] :
        p \in ProfileNames, k \in (-XOver)..(XDen + XOver)}

InitProfile == pc = "ready" /\ call \in ProfileCalls /\ ret = None /\ heap = NoObjects

NormalizedProfile ==
    /\ pc = "ready"
    /\ call.fn = "normalized_profile"
    /\ ret' = normalized_profile(call.profile, call.x)
    /\ pc' = "done"
    /\ UNCHANGED <<call, heap>>

NextProfile == NormalizedProfile

SpecProfile == InitProfile /\ [][NextProfile]_vars

(***************************************************************************)
(* Specification of the curve generator: inputs drawn by Init, one call.   *)
(***************************************************************************)
\* rpm_step is 0 or 600 * k for k in 1..MaxStepK
MaxStepK == 3
\* peak_bmep_kpa is -100, a warning threshold (1200, 1600) or 700 * k for k in 0..MaxBmepK
MaxBmepK == 3

\* <<bore_m, stroke_m, displacement_m3>>
GeometryChoices ==
    {<<NoneNum, NoneNum, NoneNum>>,
     <<NoneNum, NoneNum, Q(2000, 1000000)>>,
     <<Q(80, 1000), Q(80, 1000), NoneNum>>,
     <<Q(80, 1000), Q(110, 1000), Q(2000, 1000000)>>,
     <<Q(80, 1000), NoneNum, NoneNum>>,
     <<NoneNum, Q(80, 1000), Q(3000, 1000000)>>,
     <<Z(0), Q(80, 1000), NoneNum>>,
     <<Q(80, 1000), Q(-80, 1000), Q(2000, 1000000)>>,
     <<NoneNum, NoneNum, Z(0)>>}

\* <<idle_rpm, redline_rpm>>
RevChoices == {<<1000, 7000>>, <<1000, 1400>>, <<1000, 900>>, <<0, 7000>>, <<400, 6400>>}

AnalyzeEngines ==
    {EngineSpec(cyl, cycle, g[1], g[2], g[3], r[1], r[2]) :
        cyl \in {0, 4}, cycle \in {"4-stroke", " 2-Stroke"},
        g \in GeometryChoices, r \in RevChoices}

AnalyzeConfigs ==
    {RunConfig(lo, hi, step) :
        lo \in {400, 1000}, hi \in {1000, 7000},
        step \in {0} \cup {600 * k : k \in 1..MaxStepK}}

AnalyzeBmeps == {Z(-100), Z(1200), Z(1600)} \cup {Z(700 * k) : k \in 0..MaxBmepK}

AnalyzeProfiles == {None, "torque_biased", "top_end", "sporty"}

AnalyzeCalls ==
    {[fn |-> "analyze_basic_curves", engine |-> e,
      assumptions |-> Assumptions("balanced", "petrol", NoneNum),
      cfg |-> c, peak_bmep_kpa |-> b, profile |-> p] :
        e \in AnalyzeEngines, c \in AnalyzeConfigs, b \in AnalyzeBmeps, p \in AnalyzeProfiles}

InitAnalyze == pc = "ready" /\ call \in AnalyzeCalls /\ ret = None /\ heap = NoObjects

AnalyzeBasicCurves ==
    /\ pc = "ready"
    /\ call.fn = "analyze_basic_curves"
    /\ ret' = analyze_basic_curves(call.engine, call.assumptions, call.cfg,
                                   call.peak_bmep_kpa, call.profile)
    /\ pc' = "done"
    /\ UNCHANGED <<call, heap>>

NextAnalyze == AnalyzeBasicCurves

SpecAnalyze == InitAnalyze /\ [][NextAnalyze]_vars

(***************************************************************************)
(* Specification of the match solver: inputs drawn by Init, one call.      *)
(***************************************************************************)
\* displacement_m3 is None, 0 or (1000 * k - 100) cc for k in 1..MaxDispK
MaxDispK == 5

MatchDisplacements ==
    {NoneNum, Z(0)} \cup {Q(1000 * k - 100, 1000000) : k \in 1..MaxDispK}

\* <<bore_m, stroke_m>>
MatchBoreStrokes == {<<NoneNum, NoneNum>>, <<Q(80, 1000), NoneNum>>, <<Q(80, 1000), Q(90, 1000)>>}

MatchEngines ==
    {EngineSpec(cyl, cycle, bs[1], bs[2], d, 800, redline) :
        cyl \in {0, 4}, cycle \in {"4-stroke", "2-stroke", ""},
        bs \in MatchBoreStrokes, d \in MatchDisplacements, redline \in {0, 6500}}

MatchCalls ==
    {[fn |-> "match_engine", engine |-> e,
      assumptions |-> Assumptions(prof, "petrol", NoneNum),
      target_power_kw |-> tp, target_power_rpm |-> tpr,
      target_torque_nm |-> tt, target_torque_rpm |-> ttr, peak_bmep_kpa |-> b] :
        e \in MatchEngines,
        prof \in {"balanced", "top_end", "torque_biased", ""},
        tp \in {NoneNum, Z(100)}, tpr \in {NoneNum, Z(0), Z(6000)},
        tt \in {NoneNum, Z(200)}, ttr \in {NoneNum, Z(4000)},
        b \in {NoneNum, Z(1100)}}

InitMatch == pc = "ready" /\ call \in MatchCalls /\ ret = None /\ heap = NoObjects

MatchEngine ==
    /\ pc = "ready"
    /\ call.fn = "match_engine"
    /\ ret' = match_engine(call.engine, call.assumptions, call.target_power_kw,
                           call.target_power_rpm, call.target_torque_nm,
                           call.target_torque_rpm, call.peak_bmep_kpa)
    /\ pc' = "done"
    /\ UNCHANGED <<call, heap>>

NextMatch == MatchEngine

SpecMatch == InitMatch /\ [][NextMatch]_vars

KnownProfiles == {"torque_biased", "balanced", "top_end"}

\* x lies in segment k of pts and (x, y) is on the straight line through its ends.
OnSegment(pts, k, x, y) ==
    /\ RLe(pts[k][1], x)
    /\ RLe(x, pts[k + 1][1])
    /\ RMul(RSub(y, pts[k][2]), RSub(pts[k + 1][1], pts[k][1]))
         = RMul(RSub(x, pts[k][1]), RSub(pts[k + 1][2], pts[k][2]))

\* C6: for the three named profiles normalized_profile returns a value in [0,1]
\* that is the linear interpolation between the two control points neighbouring
\* the clamped x; at x <= 0 it is the first control point's y, at x >= 1 the
\* last one's; any other profile name raises an error.
C6_ProfileInterpolates ==
    (pc = "done" /\ call.fn = "normalized_profile") =>
        IF call.profile \notin KnownProfiles THEN ~ret.ok /\ StartsWith(ret.exc, "ValueError: Unknown profile")
        ELSE LET pts == TEMPLATES[call.profile]
                 x   == call.x
                 xc  == IF x.n < 0 THEN Z(0) ELSE IF x.n > x.d THEN Z(1) ELSE x
             IN  /\ ret.ok
                 /\ RLe(Z(0), ret.v) /\ RLe(ret.v, Z(1))
                 /\ (x.n <= 0 => ret.v = pts[1][2])
                 /\ (x.n >= x.d => ret.v = pts[Len(pts)][2])
                 /\ \E k \in 1..(Len(pts) - 1) : OnSegment(pts, k, xc, ret.v)

\* A call strictly inside a segment whose result is neither end's y.
C6_Witness ==
    /\ pc = "done" /\ call.fn = "normalized_profile"
    /\ call.profile = "top_end" /\ ret.ok
    /\ RLt(Q(60, 100), call.x) /\ RLt(call.x, Q(72, 100))
    /\ RLt(Q(95, 100), ret.v) /\ RLt(ret.v, Z(1))

(***************************************************************************)
(* Specification of the design solver: inputs drawn by Init, one call.     *)
(***************************************************************************)
\* target_power_kw is 0 or 10 * k for k in 1..MaxTargetK
MaxTargetK == 2
\* disp_max_cc is 500 or 1000 * MaxDesignDispK, with disp_min_cc = 1000
MaxDesignDispK == 3

DesignCalls ==
    {[fn |-> "design_candidates",
      kw |-> [target_power_kw |-> tp, target_power_rpm |-> tpr, redline_rpm |-> redline,
              profile |-> prof, cycle |-> "4-stroke", fuel |-> "petrol",
              bsfc_g_per_kwh |-> NoneNum, bmep_max_kpa |-> bmax,
              piston_speed_max_mps |-> ps, disp_min_cc |-> 1000, disp_max_cc |-> dmax,
              disp_step_cc |-> dstep, cylinders_list |-> cyls, top_n |-> top_n]] :
        tp \in {Z(0)} \cup {Z(10 * k) : k \in 1..MaxTargetK},
        tpr \in {NoneNum, Z(0), Z(1550)},
        redline \in {900, 1600},
        prof \in {"balanced", "torque_biased", "sporty"},
        bmax \in {Z(900), Z(2000)},
        ps \in {Z(0), Z(20)},
        dmax \in {500, 1000 * MaxDesignDispK},
        dstep \in {0, 1000},
        cyls \in {NoneList, SomeList(<<0, 6, 4>>)},
        top_n \in {0, 5}}

InitDesign == pc = "ready" /\ call \in DesignCalls /\ ret = None /\ heap = NoObjects

DesignCandidates ==
    /\ pc = "ready"
    /\ call.fn = "design_candidates"
    /\ ret' = design_candidates(call.kw)
    /\ pc' = "done"
    /\ UNCHANGED <<call, heap>>

NextDesign == DesignCandidates

SpecDesign == InitDesign /\ [][NextDesign]_vars

(***************************************************************************)
(* Specification of the top-speed estimator: Init draws two Results and    *)
(* one engine, vehicle and drivetrain; estimate_top_speed is called on     *)
(* each Result in turn and ret collects what the calls return.             *)
(***************************************************************************)
MaxSamples == 2          \* the rpm curve is 1500, 3000, ..., 1500*MaxSamples
MaxPowerK == 2           \* a power sample is 3*k kW, k in 0..MaxPowerK

TopSpeedRpms == [i \in 1..MaxSamples |-> Z(1500 * i)]

TopSpeedPowers == [1..MaxSamples -> {Z(3 * k) : k \in 0..MaxPowerK}]

\* The second Result raises each power sample of the first by 0 or 3 kW.
TopSpeedRaised(pa, up) == [j \in 1..MaxSamples |-> RAdd(pa[j], Z(3 * up[j]))]

\* Tire radii are multiples of 1/pi, so that the circumference and every speed
\* are rational: 1/pi m is a 0.318 m tire.
TopSpeedCalls ==
    {[fn |-> "estimate_top_speed",
      results |-> <<Result(<<>>, [rpm |-> TopSpeedRpms, power_kw |-> pa], <<>>),
                    Result(<<>>, [rpm |-> TopSpeedRpms, power_kw |-> TopSpeedRaised(pa, up)],
                           <<>>)>>,
      engine |-> EngineSpec(4, "4-stroke", NoneNum, NoneNum, Q(2, 1000), 800, redline),
      vehicle |-> VehicleSpec(Z(1000), Q(27, 100), Z(2), env[1], env[2]),
      drivetrain |-> DrivetrainSpec(gears, Z(5), RInv(Pi), eff)] :
        pa \in TopSpeedPowers, up \in [1..MaxSamples -> {0, 1}], redline \in {2000, 7000},
        env \in {<<NoneNum, NoneNum>>, <<Q(1, 100), Q(12, 10)>>},
        gears \in {NoneList, SomeList(<<Z(2), Z(1)>>), SomeList(<<Z(1), Z(2)>>)},
        eff \in {NoneNum, Q(1, 2)}}

InitTopSpeed == pc = "ready" /\ call \in TopSpeedCalls /\ ret = <<>> /\ heap = NoObjects

EstimateTopSpeed ==
    /\ pc = "ready"
    /\ call.fn = "estimate_top_speed"
    /\ ret' = Append(ret, estimate_top_speed(call.results[Len(ret) + 1], call.engine,
                                              call.vehicle, call.drivetrain))
    /\ pc' = IF Len(ret) + 1 = Len(call.results) THEN "done" ELSE "ready"
    /\ UNCHANGED <<call, heap>>

NextTopSpeed == EstimateTopSpeed

SpecTopSpeed == InitTopSpeed /\ [][NextTopSpeed]_vars

(***************************************************************************)
(* Specification of the upshift recommender: inputs drawn by Init, one     *)
(* call.                                                                   *)
(***************************************************************************)
MaxShiftSamples == 3     \* the rpm curve is 1000, 2000, ..., 1000*MaxShiftSamples
MaxTorqueK == 3          \* a torque sample is 100*k Nm, k in 0..MaxTorqueK

ShiftRpms == [i \in 1..MaxShiftSamples |-> Z(1000 * i)]

ShiftTorques == [1..MaxShiftSamples -> {Z(100 * k) : k \in 0..MaxTorqueK}]

ShiftCalls ==
    {[fn |-> "recommend_upshifts",
      result |-> Result(<<>>, [rpm |-> ShiftRpms, torque_nm |-> tq], <<>>),
      engine |-> EngineSpec(4, "4-stroke", NoneNum, NoneNum, Q(2, 1000), idle, redline),
      drivetrain |-> DrivetrainSpec(gears, Z(4), tire, NoneNum)] :
        tq \in ShiftTorques, idle \in {800, 1500}, redline \in {2500, 7000},
        gears \in {NoneList, SomeList(<<Z(2)>>), SomeList(<<Z(3), Z(2)>>),
                   SomeList(<<Z(3), Z(2), Z(1)>>), SomeList(<<Z(2), Z(3)>>),
                   SomeList(<<Z(0), Z(1)>>)},
        tire \in {NoneNum, Q(3, 10)}}

InitShifts == pc = "ready" /\ call \in ShiftCalls /\ ret = None /\ heap = NoObjects

RecommendUpshifts ==
    /\ pc = "ready"
    /\ call.fn = "recommend_upshifts"
    /\ ret' = recommend_upshifts(call.result, call.engine, call.drivetrain)
    /\ pc' = "done"
    /\ UNCHANGED <<call, heap>>

NextShifts == RecommendUpshifts

SpecShifts == InitShifts /\ [][NextShifts]_vars

(***************************************************************************)
(* Claims about analyze_basic_curves, checked under SpecAnalyze.           *)
(***************************************************************************)
AnalyzeDone == pc = "done" /\ call.fn = "analyze_basic_curves"

IsErrorIssue(s) == StartsWith(s, "[ERROR]")
IsWarnIssue(s) == StartsWith(s, "[WARN]")

CurveKeys == {"rpm", "bmep_kpa", "torque_nm", "power_kw"}

\* Shape (a): at least one ERROR issue, no curves, no scalars.
ErrorShape(r) ==
    /\ \E i \in 1..Len(r.issues) : IsErrorIssue(r.issues[i])
    /\ DOMAIN r.curves = {}
    /\ DOMAIN r.scalars = {}

\* Shape (b): only WARN issues, the four curves present.
CurveShape(r) ==
    /\ \A i \in 1..Len(r.issues) : IsWarnIssue(r.issues[i]) /\ ~IsErrorIssue(r.issues[i])
    /\ CurveKeys \subseteq DOMAIN r.curves

\* An engine with an ERROR-level validation issue.
EngineInvalid(e) ==
    \/ e.cylinders <= 0
    \/ (~IsNone(e.bore_m) /\ e.bore_m.n <= 0)
    \/ (~IsNone(e.stroke_m) /\ e.stroke_m.n <= 0)
    \/ (~IsNone(e.displacement_m3) /\ e.displacement_m3.n <= 0)
    \/ e.idle_rpm <= 0
    \/ e.redline_rpm <= e.idle_rpm

\* C1: every Result analyze_basic_curves returns either carries an ERROR issue
\* with empty curves and scalars, or carries only WARN issues with the rpm,
\* bmep_kpa, torque_nm and power_kw curves; an engine with an ERROR-level
\* validation issue always gets the first shape.
C1_ResultShapes ==
    AnalyzeDone =>
        /\ ret.ok => (ErrorShape(ret.v) /\ ~CurveShape(ret.v)) \/ (CurveShape(ret.v) /\ ~ErrorShape(ret.v))
        /\ EngineInvalid(call.engine) => ret.ok /\ ErrorShape(ret.v)

\* An engine with usable geometry but redline <= idle is answered with issues only.
C1_Witness ==
    /\ AnalyzeDone
    /\ call.engine.cylinders = 4
    /\ ~IsNone(call.engine.displacement_m3) /\ call.engine.displacement_m3.n > 0
    /\ call.engine.idle_rpm > 0
    /\ call.engine.redline_rpm <= call.engine.idle_rpm
    /\ call.cfg.rpm_step > 0 /\ call.cfg.rpm_max > call.cfg.rpm_min
    /\ ret.ok /\ ErrorShape(ret.v)

ConfigInvalid(cfg) == cfg.rpm_step <= 0 \/ cfg.rpm_max <= cfg.rpm_min

\* C2: for an engine that passes validation, an invalid RunConfig (rpm_step <= 0
\* or rpm_max <= rpm_min) yields a returned Result with an ERROR issue and empty
\* curves, never an exception.
C2_InvalidConfigReturnsIssues ==
    (AnalyzeDone /\ ~EngineInvalid(call.engine) /\ ConfigInvalid(call.cfg)) =>
        /\ ret.ok
        /\ \E i \in 1..Len(ret.v.issues) : IsErrorIssue(ret.v.issues[i])
        /\ DOMAIN ret.v.curves = {}

Succeeded == AnalyzeDone /\ ret.ok /\ CurveShape(ret.v)

\* C3: on success the rpm curve is rpm_min, rpm_min + rpm_step, ... up to the
\* largest such value <= rpm_max (rpm_max is a sample exactly when
\* rpm_max - rpm_min is divisible by rpm_step), and the other three curves have
\* the length of the rpm curve.
C3_RpmGrid ==
    Succeeded =>
        LET cfg == call.cfg
            rpm == ret.v.curves["rpm"]
            n   == Len(rpm)
        IN  /\ n >= 1
            /\ \A i \in 1..n : rpm[i] = Z(cfg.rpm_min + (i - 1) * cfg.rpm_step)
            /\ cfg.rpm_min + (n - 1) * cfg.rpm_step <= cfg.rpm_max
            /\ cfg.rpm_min + n * cfg.rpm_step > cfg.rpm_max
            /\ (\E i \in 1..n : rpm[i] = Z(cfg.rpm_max))
                   <=> ((cfg.rpm_max - cfg.rpm_min) % cfg.rpm_step = 0)
            /\ Len(ret.v.curves["bmep_kpa"]) = n
            /\ Len(ret.v.curves["torque_nm"]) = n
            /\ Len(ret.v.curves["power_kw"]) = n

\* A successful run whose grid ends on rpm_max itself.
C3_Witness ==
    /\ Succeeded
    /\ Len(ret.v.curves["rpm"]) >= 3
    /\ ret.v.curves["rpm"][Len(ret.v.curves["rpm"])] = Z(call.cfg.rpm_max)

\* v is the maximum of curve and at is the lowest sampled RPM attaining it.
IsFirstPeak(curve, rpm, v, at) ==
    /\ \A i \in 1..Len(curve) : RLe(curve[i], v)
    /\ \E i \in 1..Len(curve) :
          /\ curve[i] = v
          /\ rpm[i] = at
          /\ \A j \in 1..(i - 1) : curve[j] # v

\* C4: in a successful Result peak_torque_nm is the maximum of the torque_nm
\* curve and peak_torque_rpm the lowest sampled RPM attaining it, and likewise
\* peak_power_kw and peak_power_rpm for the power_kw curve.
C4_Peaks ==
    Succeeded =>
        LET r == ret.v
        IN  /\ IsFirstPeak(r.curves["torque_nm"], r.curves["rpm"],
                           r.scalars["peak_torque_nm"], r.scalars["peak_torque_rpm"])
            /\ IsFirstPeak(r.curves["power_kw"], r.curves["rpm"],
                           r.scalars["peak_power_kw"], r.scalars["peak_power_rpm"])

\* A successful run whose positive torque maximum is attained at two sampled RPMs.
C4_Witness ==
    /\ Succeeded
    /\ ret.v.scalars["peak_torque_nm"].n > 0
    /\ \E i, j \in 1..Len(ret.v.curves["rpm"]) :
          /\ i < j
          /\ ret.v.curves["torque_nm"][i] = ret.v.scalars["peak_torque_nm"]
          /\ ret.v.curves["torque_nm"][j] = ret.v.scalars["peak_torque_nm"]
          /\ ret.v.curves["rpm"][i] = ret.v.scalars["peak_torque_rpm"]

\* The same call with profile top_end.
TopEndRun ==
    analyze_basic_curves(call.engine, call.assumptions, call.cfg, call.peak_bmep_kpa, "top_end")

TorqueBiasedRun == Succeeded /\ call.profile = "torque_biased"

\* peak_torque_rpm of a run, or None when the run did not produce curves.
PeakTorqueRpmOf(r) ==
    IF r.ok /\ CurveShape(r.v) THEN r.v.scalars["peak_torque_rpm"] ELSE NoneNum

StrictlyEarlier(tq, te) == ~IsNone(te) => RLt(tq, te)

\* C5 as stated: whenever analyze_basic_curves succeeds, peak_torque_rpm with
\* profile torque_biased is strictly less than with profile top_end.
C5_StrictlyEarlierPeak ==
    TorqueBiasedRun =>
        StrictlyEarlier(ret.v.scalars["peak_torque_rpm"], PeakTorqueRpmOf(TopEndRun))

\* Sampled RPMs whose fraction of [idle, redline] lies in [0.45, 0.72].
MidBandSamples ==
    {i \in 1..Len(ret.v.curves["rpm"]) :
        LET rpm  == ret.v.curves["rpm"][i].n
            span == call.engine.redline_rpm - call.engine.idle_rpm
            off  == rpm - call.engine.idle_rpm
        IN  45 * span <= 100 * off /\ 100 * off <= 72 * span}

EarlierWhen(strict, tq, te) ==
    ~IsNone(te) => (RLe(tq, te) /\ (strict => RLt(tq, te)))

\* C5 amended: peak_torque_rpm with torque_biased is never greater than with
\* top_end, and is strictly less when peak BMEP is positive and at least two
\* sampled RPMs lie between 45% and 72% of the way from idle to redline.
C5_EarlierPeak ==
    TorqueBiasedRun =>
        EarlierWhen(call.peak_bmep_kpa.n > 0 /\ Cardinality(MidBandSamples) >= 2,
                    ret.v.scalars["peak_torque_rpm"], PeakTorqueRpmOf(TopEndRun))

StrictlyEarlierRun(tq, te) == ~IsNone(te) /\ RLt(tq, te)

\* A pair of runs with two mid-band samples and a strictly earlier torque_biased peak.
C5_Witness ==
    /\ TorqueBiasedRun
    /\ call.peak_bmep_kpa.n > 0
    /\ Cardinality(MidBandSamples) >= 2
    /\ StrictlyEarlierRun(ret.v.scalars["peak_torque_rpm"], PeakTorqueRpmOf(TopEndRun))

(***************************************************************************)
(* Claims about match_engine, checked under SpecMatch.                     *)
(***************************************************************************)
MatchReturned == pc = "done" /\ call.fn = "match_engine" /\ ret.ok

\* The inference an assumptions_made note records.
NoteKind(note) ==
    IF StartsWith(note, "Assumed cylinders=") /\ Contains(note, " from displacement bucket")
    THEN "cylinders_from_bucket"
    ELSE IF note = "Assumed cylinders=4 (no cylinder count provided)" THEN "cylinders_default"
    ELSE IF StartsWith(note, "Assumed bore/stroke ratio=") THEN "bore_stroke_ratio"
    ELSE IF StartsWith(note, "Missing geometry") THEN "missing_geometry"
    ELSE IF StartsWith(note, "Assumed peak power rpm=") THEN "peak_power_rpm"
    ELSE IF StartsWith(note, "No target power/torque provided") THEN "bmep_default"
    ELSE IF StartsWith(note, "Assumed peak torque rpm=") THEN "peak_torque_rpm"
    ELSE "other"

\* The penalty of each inference, in hundredths, as the claim lists them.
PenaltyOf(kind) ==
    CASE kind = "cylinders_from_bucket" -> 15
      [] kind = "bore_stroke_ratio" -> 20
      [] kind = "cylinders_default" -> 20
      [] kind = "missing_geometry" -> 40
      [] kind = "peak_power_rpm" -> 10
      [] kind = "bmep_default" -> 35
      [] kind = "peak_torque_rpm" -> 5
      [] OTHER -> 0

RECURSIVE PenaltySum(_)
PenaltySum(kinds) ==
    IF kinds = <<>> THEN 0 ELSE PenaltyOf(Head(kinds)) + PenaltySum(Tail(kinds))

KindsOf(made) == [i \in 1..Len(made) |-> NoteKind(made[i])]

Given(x) == ~IsNone(x)
DispGiven == Given(call.engine.displacement_m3)
BoreOrStrokeMissing == IsNone(call.engine.bore_m) \/ IsNone(call.engine.stroke_m)
\* Displacement given, or derivable from bore, stroke and a cylinder count.
DispKnown ==
    \/ DispGiven
    \/ (Given(call.engine.bore_m) /\ Given(call.engine.stroke_m) /\ call.engine.cylinders # 0)

\* The inferences the inputs of the call make necessary, in rule order.
InferencesMade ==
    (IF DispGiven /\ call.engine.cylinders = 0 THEN <<"cylinders_from_bucket">> ELSE <<>>)
    \o (IF DispKnown /\ BoreOrStrokeMissing THEN <<"bore_stroke_ratio">> ELSE <<>>)
    \o (IF ~DispKnown /\ BoreOrStrokeMissing THEN <<"missing_geometry">> ELSE <<>>)
    \o (IF /\ IsNone(call.peak_bmep_kpa)
           /\ ~(Given(call.target_torque_nm) /\ DispKnown)
           /\ Given(call.target_power_kw) /\ DispKnown
           /\ IsNone(call.target_power_rpm)
        THEN <<"peak_power_rpm">> ELSE <<>>)
    \o (IF /\ IsNone(call.peak_bmep_kpa)
           /\ ~(Given(call.target_torque_nm) /\ DispKnown)
           /\ ~(Given(call.target_power_kw) /\ DispKnown)
        THEN <<"bmep_default">> ELSE <<>>)
    \o (IF Given(call.target_torque_nm) /\ IsNone(call.target_torque_rpm)
        THEN <<"peak_torque_rpm">> ELSE <<>>)

ClampUnit(h) == IF h < 0 THEN 0 ELSE IF h > 100 THEN 100 ELSE h

\* C7: the confidence match_engine returns is clamp(1.0 - sum of the penalties
\* of the inferences made, 0, 1) with the penalties 0.15, 0.20, 0.20, 0.40,
\* 0.10, 0.35 and 0.05; each inference made has exactly one note in
\* assumptions_made, in rule order, and every note is that of a penalised inference.
C7_ConfidenceIsPenaltySum ==
    MatchReturned =>
        LET kinds == KindsOf(ret.v.assumptions_made)
        IN  /\ kinds = InferencesMade
            /\ \A i \in 1..Len(kinds) : PenaltyOf(kinds[i]) > 0
            /\ ret.v.confidence = Q(ClampUnit(100 - PenaltySum(kinds)), 100)

\* A call that needs three inferences: bucket cylinders, ratio and default BMEP.
C7_Witness ==
    /\ MatchReturned
    /\ KindsOf(ret.v.assumptions_made)
           = <<"cylinders_from_bucket", "bore_stroke_ratio", "bmep_default">>
    /\ ret.v.confidence = Q(30, 100)

\* 4*pi unless the cycle names a 2-stroke, then 2*pi.
RadiansPerCycle ==
    IF call.engine.cycle = "2-stroke" THEN RMul(Z(2), Pi) ELSE RMul(Z(4), Pi)

\* The displacement the BMEP inference uses: the given one, else the derived one.
KnownDisplacement ==
    IF DispGiven THEN call.engine.displacement_m3
    ELSE RMul(RMul(RMul(RDiv(Pi, Z(4)), RMul(call.engine.bore_m, call.engine.bore_m)),
                   call.engine.stroke_m), Z(call.engine.cylinders))

\* C8: an explicit peak_bmep_kpa is returned unchanged; without one, with both a
\* torque and a power target and the displacement known, the BMEP is
\* torque * (4*pi or 2*pi) / displacement (in kPa), and neither the power
\* target, its RPM nor the inferred-power-RPM penalty plays a part.
C8_BmepPrefersTorque ==
    (pc = "done" /\ call.fn = "match_engine") =>
        /\ Given(call.peak_bmep_kpa) => ret.ok /\ ret.v.peak_bmep_kpa = call.peak_bmep_kpa
        /\ (/\ IsNone(call.peak_bmep_kpa)
            /\ Given(call.target_torque_nm) /\ Given(call.target_power_kw)
            /\ DispKnown /\ KnownDisplacement.n # 0) =>
               /\ ret.ok
               /\ ret.v.peak_bmep_kpa =
                      RDiv(RMul(call.target_torque_nm, RadiansPerCycle),
                           RMul(KnownDisplacement, Z(1000)))
               /\ \A i \in 1..Len(ret.v.assumptions_made) :
                      NoteKind(ret.v.assumptions_made[i]) # "peak_power_rpm"
               /\ ret = match_engine(call.engine, call.assumptions, NoneNum, NoneNum,
                                     call.target_torque_nm, call.target_torque_rpm,
                                     call.peak_bmep_kpa)

\* Both targets on a 2-stroke of known displacement, the power RPM left out.
C8_Witness ==
    /\ MatchReturned
    /\ IsNone(call.peak_bmep_kpa)
    /\ Given(call.target_torque_nm) /\ Given(call.target_power_kw)
    /\ IsNone(call.target_power_rpm)
    /\ call.engine.cycle = "2-stroke"
    /\ DispGiven /\ call.engine.displacement_m3 = Q(1900, 1000000)
    /\ ret.v.peak_bmep_kpa = RMul(Q(4000, 19), Pi)

BmepDefaulted ==
    \E i \in 1..Len(ret.v.assumptions_made) :
        NoteKind(ret.v.assumptions_made[i]) = "bmep_default"

\* C9: match_engine defaults peak_bmep_kpa to 1000, with the 0.35 penalty and
\* the 'No target power/torque provided' note, if and only if no explicit
\* peak_bmep_kpa, no torque target and no power target were supplied.
C9_DefaultOnlyWithoutTargets ==
    MatchReturned =>
        (BmepDefaulted <=>
            /\ IsNone(call.peak_bmep_kpa)
            /\ IsNone(call.target_torque_nm)
            /\ IsNone(call.target_power_kw))

\* 1.10 if the profile name contains 'top', 0.90 if it contains 'torque', else 1.00.
RatioOfProfile ==
    LET name == IF call.assumptions.ve_profile = "" THEN "balanced"
                ELSE call.assumptions.ve_profile
    IN  IF Contains(name, "top") THEN Q(110, 100)
        ELSE IF Contains(name, "torque") THEN Q(90, 100)
        ELSE Z(1)

RatioNotes ==
    {i \in 1..Len(ret.v.assumptions_made) :
        Contains(ret.v.assumptions_made[i], "bore/stroke ratio")}

\* C10: with the displacement known and bore or stroke missing, the engine
\* match_engine returns has bore_m and stroke_m both non-null with
\* bore_m = ratio * stroke_m for the profile's ratio; 0.20 of the confidence
\* lost is for this inference (so confidence < 1.0) and assumptions_made has a
\* note mentioning 'bore/stroke ratio'.
C10_BoreStrokeFromRatio ==
    (MatchReturned /\ DispKnown /\ BoreOrStrokeMissing) =>
        LET e == ret.v.engine
            others == {i \in 1..Len(ret.v.assumptions_made) : i \notin RatioNotes}
            kinds == KindsOf(ret.v.assumptions_made)
        IN  /\ Given(e.bore_m) /\ Given(e.stroke_m)
            /\ e.bore_m = Scale(RatioOfProfile, e.stroke_m)
            /\ Cardinality(RatioNotes) = 1
            /\ RLt(ret.v.confidence, Z(1))
            /\ RLe(ret.v.confidence, Q(80, 100))
            /\ ret.v.confidence =
                   Q(100 - 20 - PenaltySum([i \in 1..(Len(kinds) - 1) |->
                        IF i < CHOOSE j \in RatioNotes : TRUE THEN kinds[i] ELSE kinds[i + 1]]),
                     100)

\* Only the displacement and a power target given, as in the repository's test.
C10_Witness ==
    /\ MatchReturned
    /\ call.engine.cylinders = 4
    /\ call.engine.displacement_m3 = Q(1900, 1000000)
    /\ IsNone(call.engine.bore_m) /\ IsNone(call.engine.stroke_m)
    /\ call.assumptions.ve_profile = "top_end"
    /\ Given(call.target_power_kw) /\ IsNone(call.target_power_rpm)
    /\ IsNone(call.target_torque_nm) /\ IsNone(call.peak_bmep_kpa)
    /\ IsSurd(ret.v.engine.stroke_m)
    /\ ret.v.engine.bore_m = Scale(Q(110, 100), ret.v.engine.stroke_m)
    /\ ret.v.confidence = Q(70, 100)

\* A value the caller supplied: neither None nor zero.
Supplied(x) == ~IsNone(x) /\ x.n # 0

\* C11: the EngineSpec match_engine returns has cylinders # 0, and every field
\* the caller supplied with a non-null, non-zero value (cylinders, cycle,
\* bore_m, stroke_m, displacement_m3, idle_rpm, redline_rpm) appears in it with
\* the same value.
C11_OutputCarriesInputs ==
    MatchReturned =>
        LET e == ret.v.engine
            i == call.engine
        IN  /\ e.cylinders # 0
            /\ i.cylinders # 0 => e.cylinders = i.cylinders
            /\ i.cycle \notin {None, ""} => e.cycle = i.cycle
            /\ Supplied(i.bore_m) => e.bore_m = i.bore_m
            /\ Supplied(i.stroke_m) => e.stroke_m = i.stroke_m
            /\ Supplied(i.displacement_m3) => e.displacement_m3 = i.displacement_m3
            /\ i.idle_rpm # 0 => e.idle_rpm = i.idle_rpm
            /\ i.redline_rpm # 0 => e.redline_rpm = i.redline_rpm

\* C12 (match_engine part): for every combination of inputs of the declared
\* types, match_engine returns a MatchResult; it never raises an exception.
C12_MatchNeverRaises ==
    (pc = "done" /\ call.fn = "match_engine") => ret.ok

(***************************************************************************)
(* Claims about design_candidates, checked under SpecDesign.               *)
(***************************************************************************)
DesignReturned == pc = "done" /\ call.fn = "design_candidates" /\ ret.ok

\* A call that reaches the sort: positive target, no pass raised.
DesignSearched == DesignReturned /\ call.kw.target_power_kw.n > 0

\* Every grid combination that survived the constraints, in grid order.
Survivors ==
    Appended(DesignPasses(call.kw,
                          Assumptions(call.kw.profile, call.kw.fuel, call.kw.bsfc_g_per_kwh),
                          RunConfig(1000, call.kw.redline_rpm, 100),
                          DesignGridOf(call.kw)))

TopCount == IF call.kw.top_n > 1 THEN call.kw.top_n ELSE 1

Members(seq) == {seq[i] : i \in 1..Len(seq)}

\* out is score-sorted, has min(|all|, n) entries, all of them survivors, and
\* leaves out no survivor that scores strictly lower than one it contains.
RankedPrefix(out, all, n) ==
    /\ \A i, j \in 1..Len(out) : i < j => RLe(out[i].score, out[j].score)
    /\ Len(out) = (IF Len(all) < n THEN Len(all) ELSE n)
    /\ Members(out) \subseteq Members(all)
    /\ \A s \in Members(all) \ Members(out) :
           \A i \in 1..Len(out) : ~RLt(s.score, out[i].score)

\* C13: the list design_candidates returns is sorted by score in non-decreasing
\* order and is the first max(1, top_n) entries of the score-sorted survivors:
\* its length is min(number of survivors, max(1, top_n)) and no survivor with a
\* strictly lower score than a returned one is left out.
C13_SortedTopN == DesignSearched => RankedPrefix(ret.v, Survivors, TopCount)

\* The survivors were appended out of score order, and fewer than all of
\* them, but at least two, are returned.
OutOfOrderCut(out, all) ==
    /\ Len(out) >= 2 /\ Len(out) < Len(all)
    /\ RLt(out[1].score, out[2].score)
    /\ \E i \in 1..(Len(all) - 1) : RGt(all[i].score, all[i + 1].score)

C13_Witness == DesignSearched /\ OutOfOrderCut(ret.v, Survivors)

\* y is the value at x of the line through the samples around x, or the end
\* sample when x lies outside them.
LinearAt(xs, ys, x, y) ==
    \/ RLe(x, xs[1]) /\ y = ys[1]
    \/ RGe(x, xs[Len(xs)]) /\ y = ys[Len(ys)]
    \/ \E i \in 1..(Len(xs) - 1) :
           /\ RLe(xs[i], x) /\ RLe(x, xs[i + 1])
           /\ RMul(RSub(y, ys[i]), RSub(xs[i + 1], xs[i]))
                  = RMul(RSub(x, xs[i]), RSub(ys[i + 1], ys[i]))

\* The RPM the target power refers to: the target RPM, else the base run's peak.
ReferenceRpm(base) ==
    IF Truthy(call.kw.target_power_rpm) THEN call.kw.target_power_rpm
    ELSE base.scalars["peak_power_rpm"]

\* c's BMEP takes the base run's power at the reference RPM to the target.
ScaledFromBase(c, base) ==
    /\ base.ok
    /\ LinearAt(base.v.curves["rpm"], base.v.curves["power_kw"], ReferenceRpm(base.v),
                RDiv(RMul(Z(1000), call.kw.target_power_kw), c.peak_bmep_kpa))

GridEngines ==
    {EngineSpec(DesignGridOf(call.kw)[k][2], call.kw.cycle, NoneNum, NoneNum,
                Q(DesignGridOf(call.kw)[k][1], 1000000), 800, call.kw.redline_rpm) :
        k \in 1..Len(DesignGridOf(call.kw))}

\* C14: every candidate design_candidates returns is a grid combination with
\* peak_bmep_kpa = 1000 * target_power_kw / (power of the 1000 kPa base run,
\* linearly interpolated at the reference RPM) and peak_bmep_kpa <= bmep_max_kpa;
\* the result is the empty list when target_power_kw <= 0.
C14_BmepScaledAndBounded ==
    DesignReturned =>
        /\ call.kw.target_power_kw.n <= 0 => ret.v = <<>>
        /\ \A i \in 1..Len(ret.v) :
               /\ ret.v[i].engine \in GridEngines
               /\ RGt(ret.v[i].peak_bmep_kpa, Z(0))
               /\ RLe(ret.v[i].peak_bmep_kpa, call.kw.bmep_max_kpa)
               /\ ScaledFromBase(ret.v[i],
                      analyze_basic_curves(ret.v[i].engine, ret.v[i].assumptions,
                                           ret.v[i].run_config, Z(1000), call.kw.profile))

\* A target RPM between two samples; the 2.0 l engine is returned at a BMEP
\* that the 1.0 l engine of the same grid would have to double, past the ceiling.
C14_Witness ==
    /\ DesignSearched
    /\ call.kw.target_power_rpm = Z(1550)
    /\ Len(ret.v) >= 1
    /\ ret.v[1].engine.displacement_m3 = Q(2000, 1000000)
    /\ RGt(RMul(Z(2), ret.v[1].peak_bmep_kpa), call.kw.bmep_max_kpa)

PowerError(c) ==
    RDiv(RAbs(RSub(c.result.scalars["peak_power_kw"], call.kw.target_power_kw)),
         call.kw.target_power_kw)

\* (disp_cc / 1000) * 0.02 + cylinders * 0.01 of a candidate.
SizePenalty(c) ==
    RAdd(RMul(RMul(c.engine.displacement_m3, Z(1000)), Q(2, 100)),
         RMul(Z(c.engine.cylinders), Q(1, 100)))

\* |peak_power_rpm - target_power_rpm| of a candidate.
RpmGap(c) == RAbs(RSub(c.result.scalars["peak_power_rpm"], call.kw.target_power_rpm))

RpmsOf(i) == call.results[i].curves["rpm"]
PowerOf(i) == call.results[i].curves["power_kw"]
EffOf(d) == IF IsNone(d.drivetrain_efficiency) THEN Q(9, 10) ELSE d.drivetrain_efficiency
RpmCapOf(i) ==
    LET k == CHOOSE m \in 1..Len(RpmsOf(i)) :
                 \A j \in 1..Len(RpmsOf(i)) : RLe(RpmsOf(i)[j], RpmsOf(i)[m])
    IN  IF RLt(RpmsOf(i)[k], Z(call.engine.redline_rpm)) THEN RpmsOf(i)[k]
        ELSE Z(call.engine.redline_rpm)

\* Vehicle speed in km/h of gear gi at the j-th sampled RPM of call i.
PairKph(i, gi, j) ==
    RMul(speed_mps_from_rpm(RpmsOf(i)[j], call.drivetrain.gears.list[gi],
                            call.drivetrain.final_drive, call.drivetrain.tire_radius_m).v,
         Q(36, 10))

\* Road-load power in W at that speed.
PairRequired(i, gi, j) ==
    road_load_power_w(RDiv(PairKph(i, gi, j), Q(36, 10)), call.vehicle.mass_kg, call.vehicle.cd,
                      call.vehicle.frontal_area_m2,
                      IF IsNone(call.vehicle.crr) THEN Q(12, 1000) ELSE call.vehicle.crr,
                      IF IsNone(call.vehicle.air_density_kg_m3) THEN Q(1225, 1000)
                      ELSE call.vehicle.air_density_kg_m3).v

\* The (gear, sample) pairs of call i within the RPM cap.
CappedPairs(i) ==
    {f \in (1..Len(call.drivetrain.gears.list)) \X (1..Len(RpmsOf(i))) :
        RLe(RpmsOf(i)[f[2]], RpmCapOf(i))}

\* Those whose curve power x 1000 x efficiency covers the road load.
FeasiblePairs(i) ==
    {f \in CappedPairs(i) :
        RGe(RMul(RMul(PowerOf(i)[f[2]], Z(1000)), EffOf(call.drivetrain)),
            PairRequired(i, f[1], f[2]))}

TopSpeedIsMax(r, i, F) ==
    IF F = {}
    THEN r.top_speed_kph = Z(0) /\ r.top_speed_gear = Z(0) /\ r.top_speed_rpm = Z(0)
    ELSE /\ \A f \in F : RLe(PairKph(i, f[1], f[2]), r.top_speed_kph)
         /\ \E f \in F : /\ PairKph(i, f[1], f[2]) = r.top_speed_kph
                         /\ r.top_speed_gear = Z(f[1])
                         /\ r.top_speed_rpm = RpmsOf(i)[f[2]]

\* C17: estimate_top_speed returns the maximum speed over the (gear, sampled
\* RPM) pairs with RPM <= min(redline, max sampled RPM) whose curve power x 1000
\* x drivetrain efficiency is at least the road-load power at that speed, with
\* the gear and RPM of a pair attaining it; speed, gear and RPM are 0 when no
\* pair is feasible.
C17_MaxFeasibleSpeed ==
    \A i \in 1..Len(ret) : ret[i].ok => TopSpeedIsMax(ret[i].v, i, FeasiblePairs(i))

\* The first call has no feasible pair; the second has a feasible pair slower
\* than the returned one and a pair within the cap that is not feasible.
C17_Witness ==
    /\ pc = "done" /\ ret[1].ok /\ ret[2].ok
    /\ CappedPairs(1) # {} /\ FeasiblePairs(1) = {}
    /\ ret[1].v.top_speed_gear = Z(0)
    /\ \E f \in FeasiblePairs(2) : RLt(PairKph(2, f[1], f[2]), ret[2].v.top_speed_kph)
    /\ CappedPairs(2) # FeasiblePairs(2)

\* Result B's power curve is above Result A's at every sampled RPM of the same
\* rpm curve.
StrictlyHigher(b, a) ==
    /\ b.curves["rpm"] = a.curves["rpm"]
    /\ \A j \in 1..Len(a.curves["power_kw"]) :
          RGt(b.curves["power_kw"][j], a.curves["power_kw"][j])

\* C18 as stated: with engine, vehicle and drivetrain fixed, a strictly higher
\* power curve at every sampled RPM gives a strictly higher top_speed_kph.
C18_StrictlyHigherTopSpeed ==
    (pc = "done" /\ ret[1].ok /\ ret[2].ok
        /\ StrictlyHigher(call.results[2], call.results[1]))
    => RGt(ret[2].v.top_speed_kph, ret[1].v.top_speed_kph)

\* C18 amended: with engine, vehicle and drivetrain fixed, a strictly higher
\* power curve at every sampled RPM gives a top_speed_kph that is not lower.
C18_NotLowerTopSpeed ==
    (pc = "done" /\ ret[1].ok /\ ret[2].ok
        /\ StrictlyHigher(call.results[2], call.results[1]))
    => RGe(ret[2].v.top_speed_kph, ret[1].v.top_speed_kph)

\* Both cases of the amended claim in one spec: here the higher curve reaches a
\* strictly higher speed from a lower curve that already moves the vehicle.
C18_Witness ==
    /\ pc = "done" /\ ret[1].ok /\ ret[2].ok
    /\ StrictlyHigher(call.results[2], call.results[1])
    /\ RGt(ret[1].v.top_speed_kph, Z(0))
    /\ RGt(ret[2].v.top_speed_kph, ret[1].v.top_speed_kph)

(***************************************************************************)
(* Claims about recommend_upshifts, checked under SpecShifts.              *)
(***************************************************************************)
ShiftReturned == pc = "done" /\ ret.ok

ShiftGears == call.drivetrain.gears.list
ShiftCurveRpms == call.result.curves["rpm"]

\* Curve torque at RPM x, interpolated.
TorqueAt(x) == interp_1d(ShiftCurveRpms, call.result.curves["torque_nm"], x).v

\* The largest and the smallest sampled RPM.
MaxSampled == CHOOSE r \in {ShiftCurveRpms[j] : j \in 1..Len(ShiftCurveRpms)} :
                  \A j \in 1..Len(ShiftCurveRpms) : RLe(ShiftCurveRpms[j], r)
MinSampled == CHOOSE r \in {ShiftCurveRpms[j] : j \in 1..Len(ShiftCurveRpms)} :
                  \A j \in 1..Len(ShiftCurveRpms) : RLe(r, ShiftCurveRpms[j])

\* The window [max(idle, min sampled), min(redline, max sampled)].
WindowLow == IF RGt(MinSampled, Z(call.engine.idle_rpm)) THEN MinSampled
             ELSE Z(call.engine.idle_rpm)
WindowHigh == IF RLt(MaxSampled, Z(call.engine.redline_rpm)) THEN MaxSampled
              ELSE Z(call.engine.redline_rpm)
InWindow(x) == RLe(WindowLow, x) /\ RLe(x, WindowHigh)

\* RPM after the shift out of gear i (from 1) taken at r.
PostShift(i, r) == RDiv(RMul(r, ShiftGears[i + 1]), ShiftGears[i])

\* The sampled RPMs that qualify for the upshift out of gear i.
Qualifying(i) ==
    {r \in {ShiftCurveRpms[j] : j \in 1..Len(ShiftCurveRpms)} :
        /\ InWindow(r)
        /\ InWindow(PostShift(i, r))
        /\ RGe(RMul(TorqueAt(PostShift(i, r)), ShiftGears[i + 1]),
               RMul(TorqueAt(r), ShiftGears[i]))}

\* C19: recommend_upshifts returns len(gears) - 1 rows, the i-th (from 1) with
\* from_gear = i and to_gear = i + 1; when a sampled RPM qualifies, upshift_rpm
\* is the lowest qualifying sampled RPM and post_shift_rpm is upshift_rpm x
\* gear[i+1] / gear[i].
C19_UpshiftRows ==
    ShiftReturned =>
        /\ Len(ret.v) = Len(ShiftGears) - 1
        /\ \A i \in 1..Len(ret.v) :
              /\ ret.v[i].from_gear = Z(i)
              /\ ret.v[i].to_gear = Z(i + 1)
              /\ Qualifying(i) # {} =>
                    /\ ret.v[i].upshift_rpm \in Qualifying(i)
                    /\ \A r \in Qualifying(i) : RLe(ret.v[i].upshift_rpm, r)
                    /\ ret.v[i].post_shift_rpm = PostShift(i, ret.v[i].upshift_rpm)

\* Two rows: at one boundary a sampled RPM in the window below the chosen one
\* does not qualify and the post-shift RPM falls between two samples.
C19_Witness ==
    /\ ShiftReturned
    /\ Len(ret.v) = 2
    /\ \E i \in 1..2 :
          /\ Qualifying(i) # {}
          /\ \E r \in {ShiftCurveRpms[j] : j \in 1..Len(ShiftCurveRpms)} :
                InWindow(r) /\ RLt(r, ret.v[i].upshift_rpm) /\ r \notin Qualifying(i)
          /\ ret.v[i].post_shift_rpm \notin {ShiftCurveRpms[j] : j \in 1..Len(ShiftCurveRpms)}

\* C20 as stated: at a boundary where no sampled RPM qualifies, upshift_rpm is
\* the maximum RPM of the sampled grid.
C20_DefaultGridMax ==
    ShiftReturned =>
        \A i \in 1..Len(ret.v) : Qualifying(i) = {} => ret.v[i].upshift_rpm = MaxSampled

\* The torque curve is flat and positive, the ratios strictly decreasing.
FlatDecreasing ==
    /\ \A j \in 1..Len(ShiftCurveRpms) :
          /\ call.result.curves["torque_nm"][j] = call.result.curves["torque_nm"][1]
          /\ RGt(call.result.curves["torque_nm"][j], Z(0))
    /\ \A i \in 1..(Len(ShiftGears) - 1) : RLt(ShiftGears[i + 1], ShiftGears[i])

\* C20 amended: at a boundary where no sampled RPM qualifies, and so at every
\* boundary of strictly decreasing ratios on a flat positive torque curve,
\* upshift_rpm is min(redline, maximum sampled RPM), the top of the window.
C20_DefaultWindowTop ==
    ShiftReturned =>
        \A i \in 1..Len(ret.v) :
            /\ Qualifying(i) = {} => ret.v[i].upshift_rpm = WindowHigh
            /\ FlatDecreasing => Qualifying(i) = {} /\ ret.v[i].upshift_rpm = WindowHigh

\* A flat curve on decreasing ratios with the redline above the grid, and so
\* two rows at the grid maximum.
C20_Witness ==
    /\ ShiftReturned
    /\ FlatDecreasing
    /\ Len(ret.v) = 2
    /\ WindowHigh = MaxSampled
    /\ \A i \in 1..2 : ret.v[i].upshift_rpm = MaxSampled

(***************************************************************************)
(* Further claims about analyze_basic_curves, checked under SpecAnalyze.   *)
(***************************************************************************)
DisplacementError == "[ERROR] displacement: Cannot compute displacement (need bore_m+stroke_m or displacement_m3)."

\* The issues validation collects for the engine of the call.
Validated(e) == validate_engine_inputs(Z(e.cylinders), e.bore_m, e.stroke_m, e.displacement_m3, Z(e.idle_rpm), Z(e.redline_rpm))

\* The call repeated for the same engine without its bore and stroke.
WithoutBoreStroke ==
    analyze_basic_curves([call.engine EXCEPT !.bore_m = NoneNum, !.stroke_m = NoneNum],
                         call.assumptions, call.cfg, call.peak_bmep_kpa, call.profile)

\* C21: a given displacement_m3 is used as is, whatever bore and stroke are;
\* otherwise the displacement is (pi/4) x bore^2 x stroke x cylinders; otherwise
\* the Result carries the validation issues followed by one displacement ERROR
\* and no curves.  displacement_l is 1000 x the resolved displacement.
C21_DisplacementOrder ==
    (AnalyzeDone /\ ~EngineInvalid(call.engine)) =>
        IF ~IsNone(call.engine.displacement_m3)
        THEN ret.ok /\ CurveShape(ret.v) =>
                /\ ret.v.scalars["displacement_l"] = RMul(Z(1000), call.engine.displacement_m3)
                /\ WithoutBoreStroke.ok /\ WithoutBoreStroke.v.curves = ret.v.curves
        ELSE IF ~IsNone(call.engine.bore_m) /\ ~IsNone(call.engine.stroke_m)
        THEN ret.ok /\ CurveShape(ret.v) =>
                ret.v.scalars["displacement_l"] =
                    RMul(Z(1000),
                         RMul(RMul(RMul(RDiv(Pi, Z(4)), RMul(call.engine.bore_m, call.engine.bore_m)),
                                   call.engine.stroke_m),
                              Z(call.engine.cylinders)))
        ELSE /\ ret.ok
             /\ ret.v.issues = IssueStrs(Validated(call.engine)) \o <<DisplacementError>>
             /\ DOMAIN ret.v.curves = {}

\* Displacement, bore and stroke all given, with a bore and stroke that would
\* give another displacement; the curves are there.
C21_Witness ==
    /\ AnalyzeDone /\ ret.ok /\ CurveShape(ret.v)
    /\ Len(ret.v.curves["rpm"]) > 1
    /\ ~IsNone(call.engine.displacement_m3)
    /\ ~IsNone(call.engine.bore_m) /\ ~IsNone(call.engine.stroke_m)
    /\ displacement_m3_from_bore_stroke(call.engine.bore_m, call.engine.stroke_m, call.engine.cylinders).v
           # call.engine.displacement_m3
    /\ ret.v.scalars["displacement_l"] = Z(2)

PistonVeryHigh == "[WARN] piston_speed: Very high (>25 m/s). Expect durability risk."
PistonHigh == "[WARN] piston_speed: High (>20 m/s). Racing-ish territory."
BmepVeryHigh == "[WARN] bmep: Very high BMEP (>1600 kPa). Likely boosted / highly tuned."
BmepHigh == "[WARN] bmep: High BMEP (>1200 kPa). NA engines may not sustain this."

\* How many of the issues start with the prefix, and whether s is one of them.
CountOf(issues, prefix) == Cardinality({i \in 1..Len(issues) : StartsWith(issues[i], prefix)})
HasIssue(issues, s) == \E i \in 1..Len(issues) : issues[i] = s

\* A returned Result without an ERROR issue.
Successful == AnalyzeDone /\ ret.ok /\ \A i \in 1..Len(ret.v.issues) : ~IsErrorIssue(ret.v.issues[i])

\* Mean piston speed at the redline: 2 x stroke x redline / 60.
SpeedAtRedline == RDiv(RMul(RMul(Z(2), call.engine.stroke_m), Z(call.engine.redline_rpm)), Z(60))

\* C22: in a successful Result piston_speed_mps_at_redline is present exactly
\* when stroke_m is given; there is at most one piston_speed WARN ('very high'
\* iff speed > 25, 'high' iff 20 < speed <= 25) and at most one bmep WARN
\* ('very high' iff peak_bmep_kpa > 1600, 'high' iff 1200 < peak_bmep_kpa <=
\* 1600); the four curves are there, none of them empty.
C22_CredibilityWarnings ==
    Successful =>
        /\ ("piston_speed_mps_at_redline" \in DOMAIN ret.v.scalars) <=> ~IsNone(call.engine.stroke_m)
        /\ CountOf(ret.v.issues, "[WARN] piston_speed") <= 1
        /\ HasIssue(ret.v.issues, PistonVeryHigh)
              <=> (~IsNone(call.engine.stroke_m) /\ RGt(SpeedAtRedline, Z(25)))
        /\ HasIssue(ret.v.issues, PistonHigh)
              <=> (~IsNone(call.engine.stroke_m) /\ RGt(SpeedAtRedline, Z(20))
                      /\ RLe(SpeedAtRedline, Z(25)))
        /\ CountOf(ret.v.issues, "[WARN] piston_speed")
              = CountOf(ret.v.issues, PistonVeryHigh) + CountOf(ret.v.issues, PistonHigh)
        /\ CountOf(ret.v.issues, "[WARN] bmep") <= 1
        /\ HasIssue(ret.v.issues, BmepVeryHigh) <=> RGt(call.peak_bmep_kpa, Z(1600))
        /\ HasIssue(ret.v.issues, BmepHigh)
              <=> (RGt(call.peak_bmep_kpa, Z(1200)) /\ RLe(call.peak_bmep_kpa, Z(1600)))
        /\ CountOf(ret.v.issues, "[WARN] bmep")
              = CountOf(ret.v.issues, BmepVeryHigh) + CountOf(ret.v.issues, BmepHigh)
        /\ CurveKeys \subseteq DOMAIN ret.v.curves
        /\ \A k \in CurveKeys : Len(ret.v.curves[k]) >= 1

\* A stroke at 'high' piston speed with the BMEP on the 1600 kPa threshold:
\* both 'high' warnings, and the curves.
C22_Witness ==
    /\ Successful
    /\ ~IsNone(call.engine.stroke_m)
    /\ RGt(SpeedAtRedline, Z(20)) /\ RLe(SpeedAtRedline, Z(25))
    /\ call.peak_bmep_kpa = Z(1600)
    /\ HasIssue(ret.v.issues, PistonHigh) /\ HasIssue(ret.v.issues, BmepHigh)
    /\ Len(ret.v.curves["power_kw"]) > 1

(***************************************************************************)
(* presets.py.  The three tables are module globals and live in heap; a    *)
(* gears list is an object of its own, held by reference (an index into    *)
(* heap.lists, 0 for None), and so is every spec object the callers hold   *)
(* (an index into heap.objs, 0 for None).                                  *)
(***************************************************************************)
ENGINE_PRESETS ==
    ("na_street" :> [ve_profile |-> "balanced", fuel |-> "petrol", bsfc_g_per_kwh |-> NoneNum])
    @@ ("na_torque" :> [ve_profile |-> "torque_biased", fuel |-> "petrol", bsfc_g_per_kwh |-> NoneNum])
    @@ ("turbo_sport" :> [ve_profile |-> "top_end", fuel |-> "petrol", bsfc_g_per_kwh |-> Z(290)])
    @@ ("diesel_torque" :> [ve_profile |-> "torque_biased", fuel |-> "diesel", bsfc_g_per_kwh |-> NoneNum])
    @@ ("e85_performance" :> [ve_profile |-> "top_end", fuel |-> "e85", bsfc_g_per_kwh |-> NoneNum])

VEHICLE_PRESETS ==
    ("hatch" :> VehicleSpec(Z(1200), Q(30, 100), Q(21, 10), Q(12, 1000), Q(1225, 1000)))
    @@ ("sedan" :> VehicleSpec(Z(1500), Q(29, 100), Q(22, 10), Q(12, 1000), Q(1225, 1000)))
    @@ ("suv" :> VehicleSpec(Z(1900), Q(34, 100), Q(26, 10), Q(13, 1000), Q(1225, 1000)))
    @@ ("brick4wd" :> VehicleSpec(Z(2400), Q(40, 100), Z(3), Q(14, 1000), Q(1225, 1000)))

\* gears is the reference of the table's own list in PRESET_GEARS.
GEARBOX_PRESETS ==
    ("6mt_typical" :> DrivetrainSpec(1, Q(410, 100), Q(31, 100), Q(90, 100)))
    @@ ("5mt_short" :> DrivetrainSpec(2, Q(430, 100), Q(31, 100), Q(90, 100)))
    @@ ("8at_typical" :> DrivetrainSpec(3, Q(315, 100), Q(31, 100), Q(88, 100)))

PRESET_GEARS ==
    << <<Q(360, 100), Q(219, 100), Q(141, 100), Q(112, 100), Q(87, 100), Q(69, 100)>>,
       <<Q(355, 100), Q(195, 100), Q(129, 100), Q(97, 100), Q(78, 100)>>,
       <<Q(471, 100), Q(314, 100), Q(211, 100), Q(167, 100), Q(129, 100), Z(1), Q(84, 100), Q(67, 100)>> >>

\* The heap once presets.py is imported.
PresetHeap ==
    [ENGINE_PRESETS |-> ENGINE_PRESETS, VEHICLE_PRESETS |-> VEHICLE_PRESETS,
     GEARBOX_PRESETS |-> GEARBOX_PRESETS, lists |-> PRESET_GEARS, objs |-> <<>>]

\* ord(c) order of the characters preset names are written in
CharOrder == "0123456789_abcdefghijklmnopqrstuvwxyz"
Ord(c) == CHOOSE i \in 1..Len(CharOrder) : SubSeq(CharOrder, i, i) = c

\* a < b on str
RECURSIVE StrLt(_, _)
StrLt(a, b) ==
    IF Len(b) = 0 THEN FALSE
    ELSE IF Len(a) = 0 THEN TRUE
    ELSE IF SubSeq(a, 1, 1) = SubSeq(b, 1, 1) THEN StrLt(SubSeq(a, 2, Len(a)), SubSeq(b, 2, Len(b)))
    ELSE Ord(SubSeq(a, 1, 1)) < Ord(SubSeq(b, 1, 1))

\* sorted(keys)
RECURSIVE SortedKeys(_)
SortedKeys(keys) ==
    IF keys = {} THEN <<>>
    ELSE LET least == CHOOSE k \in keys : \A o \in keys \ {k} : StrLt(k, o)
         IN  <<least>> \o SortedKeys(keys \ {least})

\* repr of a list of str
RECURSIVE ReprItems(_)
ReprItems(names) ==
    IF Len(names) = 0 THEN ""
    ELSE "'" \o names[1] \o "'" \o (IF Len(names) = 1 THEN "" ELSE ", ")
             \o ReprItems(SubSeq(names, 2, Len(names)))

ListRepr(names) == "[" \o ReprItems(names) \o "]"

list_engine_presets(h) == SortedKeys(DOMAIN h.ENGINE_PRESETS)
list_vehicle_presets(h) == SortedKeys(DOMAIN h.VEHICLE_PRESETS)
list_gearbox_presets(h) == SortedKeys(DOMAIN h.GEARBOX_PRESETS)

\* A constructor call: the new object is the last of heap.objs.
New(h, obj) == [h EXCEPT !.objs = Append(h.objs, obj)]

\* The outcome of a call that may write the heap.
Outcome(h, out) == [heap |-> h, out |-> out]

\* base is the reference of the caller's Assumptions, or 0 for None; the
\* fields are overwritten in the base object itself.
apply_engine_preset(h, preset, base) ==
    IF preset \notin DOMAIN h.ENGINE_PRESETS
    THEN Outcome(h, Raise("ValueError: Unknown engine preset '" \o preset \o "'. Valid: "
                              \o ListRepr(list_engine_presets(h))))
    ELSE LET d  == h.ENGINE_PRESETS[preset]
             h1 == IF base # 0 THEN h ELSE New(h, Assumptions("balanced", "petrol", NoneNum))
             a  == IF base # 0 THEN base ELSE Len(h1.objs)
         IN  Outcome([h1 EXCEPT !.objs[a].ve_profile = d.ve_profile,
                                !.objs[a].fuel = d.fuel,
                                !.objs[a].bsfc_g_per_kwh = d.bsfc_g_per_kwh], Ok(a))

apply_vehicle_preset(h, preset, base) ==
    IF preset \notin DOMAIN h.VEHICLE_PRESETS
    THEN Outcome(h, Raise("ValueError: Unknown vehicle preset '" \o preset \o "'. Valid: "
                              \o ListRepr(list_vehicle_presets(h))))
    ELSE LET d  == h.VEHICLE_PRESETS[preset]
             h1 == IF base # 0 THEN h
                   ELSE New(h, VehicleSpec(NoneNum, NoneNum, NoneNum, NoneNum, NoneNum))
             v  == IF base # 0 THEN base ELSE Len(h1.objs)
         IN  Outcome([h1 EXCEPT !.objs[v].mass_kg = d.mass_kg,
                                !.objs[v].cd = d.cd,
                                !.objs[v].frontal_area_m2 = d.frontal_area_m2,
                                !.objs[v].crr = d.crr,
                                !.objs[v].air_density_kg_m3 = d.air_density_kg_m3], Ok(v))

\* g.gears = d["gears"]: the table's own list, not a copy of it.
GearboxPresetShared(h, preset, base) ==
    IF preset \notin DOMAIN h.GEARBOX_PRESETS
    THEN Outcome(h, Raise("ValueError: Unknown gearbox preset '" \o preset \o "'. Valid: "
                              \o ListRepr(list_gearbox_presets(h))))
    ELSE LET d  == h.GEARBOX_PRESETS[preset]
             h1 == IF base # 0 THEN h ELSE New(h, DrivetrainSpec(0, NoneNum, NoneNum, NoneNum))
             g  == IF base # 0 THEN base ELSE Len(h1.objs)
         IN  Outcome([h1 EXCEPT !.objs[g].gears = d.gears,
                                !.objs[g].final_drive = d.final_drive,
                                !.objs[g].tire_radius_m = d.tire_radius_m,
                                !.objs[g].drivetrain_efficiency = d.drivetrain_efficiency], Ok(g))

\* list(d["gears"]) is a new list, the last of heap.lists.
apply_gearbox_preset(h, preset, base) ==
    IF preset \notin DOMAIN h.GEARBOX_PRESETS
    THEN Outcome(h, Raise("ValueError: Unknown gearbox preset '" \o preset \o "'. Valid: "
                              \o ListRepr(list_gearbox_presets(h))))
    ELSE LET d  == h.GEARBOX_PRESETS[preset]
             h1 == IF base # 0 THEN h ELSE New(h, DrivetrainSpec(0, NoneNum, NoneNum, NoneNum))
             g  == IF base # 0 THEN base ELSE Len(h1.objs)
             h2 == [h1 EXCEPT !.lists = Append(h1.lists, h1.lists[d.gears])]
         IN  Outcome([h2 EXCEPT !.objs[g].gears = Len(h2.lists),
                                !.objs[g].final_drive = d.final_drive,
                                !.objs[g].tire_radius_m = d.tire_radius_m,
                                !.objs[g].drivetrain_efficiency = d.drivetrain_efficiency], Ok(g))

(***************************************************************************)
(* units.py and cli.py: the analyze and match inputs built from the parsed *)
(* command line.                                                           *)
(***************************************************************************)
cc_to_m3(cc) == RMul(cc, Q(1, 1000000))
mm_to_m(mm) == RDiv(mm, Z(1000))

RunData(engine, assumptions, run_config, peak_bmep_kpa, vehicle, drivetrain, result) ==
    [engine |-> engine, assumptions |-> assumptions, run_config |-> run_config,
     peak_bmep_kpa |-> peak_bmep_kpa, vehicle |-> vehicle, drivetrain |-> drivetrain,
     result |-> result]

\* None where a RunData or a MatchMeta is expected
NoRunData == [run |-> None]

\* build_parser().parse_args(argv): argv holds what the user typed, None for an
\* option left out (NoneNum for a number); an option left out takes the parser's
\* default, and type=int makes an int of the number given.
parse_args(argv) ==
    [argv EXCEPT !.cycle = IF @ = None THEN "4-stroke" ELSE @,
                 !.idle = IF IsNone(@) THEN 800 ELSE @.n,
                 !.redline = IF IsNone(@) THEN 7000 ELSE @.n,
                 !.profile = IF @ = None THEN "balanced" ELSE @,
                 !.fuel = IF @ = None THEN "petrol" ELSE @,
                 !.rpm_min = IF IsNone(@) THEN 1000 ELSE @.n,
                 !.rpm_max = IF IsNone(@) THEN 7000 ELSE @.n,
                 !.rpm_step = IF IsNone(@) THEN 100 ELSE @.n]

\* EngineSpec(...) of _compute_analyze (default_cyl 4) and _compute_match (0)
CliEngine(args, default_cyl) ==
    EngineSpec(IF ~IsNone(args.cyl) THEN args.cyl.n ELSE default_cyl, args.cycle,
               IF ~IsNone(args.bore_mm) THEN mm_to_m(args.bore_mm) ELSE NoneNum,
               IF ~IsNone(args.stroke_mm) THEN mm_to_m(args.stroke_mm) ELSE NoneNum,
               IF ~IsNone(args.disp_cc) THEN cc_to_m3(args.disp_cc) ELSE NoneNum,
               args.idle, args.redline)

\* Assumptions(...), the engine preset, and the three assignments after it.
CliAssumptions(h, args) ==
    LET h1 == New(h, Assumptions(args.profile, args.fuel, args.bsfc))
        r  == IF args.engine_preset # None /\ args.engine_preset # ""
              THEN apply_engine_preset(h1, args.engine_preset, Len(h1.objs))
              ELSE Outcome(h1, Ok(Len(h1.objs)))
    IN  IF ~r.out.ok THEN r
        ELSE Outcome([r.heap EXCEPT !.objs[r.out.v].ve_profile = args.profile,
                                    !.objs[r.out.v].fuel = args.fuel,
                                    !.objs[r.out.v].bsfc_g_per_kwh = args.bsfc], r.out)

\* veh = VehicleSpec(...), the vehicle preset, and the overrides that follow.
CliVehicle(h, args) ==
    LET h1 == New(h, VehicleSpec(args.mass_kg, args.cd, args.fa_m2, args.crr, args.rho))
        r  == IF args.vehicle_preset # None /\ args.vehicle_preset # ""
              THEN apply_vehicle_preset(h1, args.vehicle_preset, Len(h1.objs))
              ELSE Outcome(h1, Ok(Len(h1.objs)))
    IN  IF ~r.out.ok THEN r
        ELSE Outcome([r.heap EXCEPT
                 !.objs[r.out.v].mass_kg = IF ~IsNone(args.mass_kg) THEN args.mass_kg ELSE @,
                 !.objs[r.out.v].cd = IF ~IsNone(args.cd) THEN args.cd ELSE @,
                 !.objs[r.out.v].frontal_area_m2 = IF ~IsNone(args.fa_m2) THEN args.fa_m2 ELSE @,
                 !.objs[r.out.v].crr = IF ~IsNone(args.crr) THEN args.crr ELSE @,
                 !.objs[r.out.v].air_density_kg_m3 = IF ~IsNone(args.rho) THEN args.rho ELSE @],
                     r.out)

\* args.gears is a list the parser made: the last of heap.lists when given.
CliGearsList(h, args) ==
    IF args.gears.given THEN [h EXCEPT !.lists = Append(h.lists, args.gears.list)] ELSE h

\* drv = DrivetrainSpec(...), the gearbox preset, and the overrides that follow.
CliDrivetrain(h, args, gears) ==
    LET h1 == New(h, DrivetrainSpec(gears, args.final_drive, args.tire_radius_m,
                                    args.drivetrain_eff))
        r  == IF args.gearbox_preset # None /\ args.gearbox_preset # ""
              THEN apply_gearbox_preset(h1, args.gearbox_preset, Len(h1.objs))
              ELSE Outcome(h1, Ok(Len(h1.objs)))
    IN  IF ~r.out.ok THEN r
        ELSE Outcome([r.heap EXCEPT
                 !.objs[r.out.v].gears = IF gears # 0 THEN gears ELSE @,
                 !.objs[r.out.v].final_drive =
                     IF ~IsNone(args.final_drive) THEN args.final_drive ELSE @,
                 !.objs[r.out.v].tire_radius_m =
                     IF ~IsNone(args.tire_radius_m) THEN args.tire_radius_m ELSE @,
                 !.objs[r.out.v].drivetrain_efficiency =
                     IF ~IsNone(args.drivetrain_eff) THEN args.drivetrain_eff ELSE @],
                     r.out)

\* have_vehicle and have_drive: veh, drv, and the RunData returned.
CliVehicleAndDrive(h, args, engine, a, cfg, res) ==
    LET have_vehicle == args.vehicle_preset # None
                        \/ (~IsNone(args.mass_kg) /\ ~IsNone(args.cd) /\ ~IsNone(args.fa_m2))
        have_drive   == args.gearbox_preset # None
                        \/ (args.gears.given /\ ~IsNone(args.final_drive)
                            /\ ~IsNone(args.tire_radius_m))
    IN  IF ~(have_vehicle /\ have_drive)
        THEN Outcome(h, Ok(RunData(engine, a, cfg, args.peak_bmep_kpa, 0, 0, res)))
        ELSE LET hl == CliGearsList(h, args)
                 v  == CliVehicle(hl, args)
             IN  IF ~v.out.ok THEN v
                 ELSE LET d == CliDrivetrain(v.heap, args,
                                             IF args.gears.given THEN Len(hl.lists) ELSE 0)
                      IN  IF ~d.out.ok THEN d
                          ELSE Outcome(d.heap, Ok(RunData(engine, a, cfg, args.peak_bmep_kpa,
                                                          v.out.v, d.out.v, res)))

\* From the analysis on: a Result with an error or without curves returns None.
CliAnalyzed(h, args, engine, a, cfg, res) ==
    IF ~res.ok THEN Outcome(h, res)
    ELSE IF Len(res.v.issues) > 0
            /\ \E i \in 1..Len(res.v.issues) : StartsWith(res.v.issues[i], "[ERROR]")
    THEN Outcome(h, Ok(NoRunData))
    ELSE IF res.v.curves = EmptyDict THEN Outcome(h, Ok(NoRunData))
    ELSE CliVehicleAndDrive(h, args, engine, a, cfg, res.v)

\* _compute_analyze without --load-json; RunData holds the references of the
\* assumptions, vehicle and drivetrain objects.
_compute_analyze(h, args) ==
    IF IsNone(args.peak_bmep_kpa) THEN Outcome(h, Ok(NoRunData))
    ELSE IF IsNone(args.disp_cc)
            /\ (IsNone(args.bore_mm) \/ IsNone(args.stroke_mm) \/ IsNone(args.cyl))
    THEN Outcome(h, Ok(NoRunData))
    ELSE LET a   == CliAssumptions(h, args)
             cfg == RunConfig(args.rpm_min, args.rpm_max, args.rpm_step)
         IN  IF ~a.out.ok THEN a
             ELSE CliAnalyzed(a.heap, args, CliEngine(args, 4), a.out.v, cfg,
                              analyze_basic_curves(CliEngine(args, 4), a.heap.objs[a.out.v],
                                                   cfg, args.peak_bmep_kpa, None))

MatchMeta(confidence, assumptions_made) ==
    [confidence |-> confidence, assumptions_made |-> assumptions_made]

\* From the analysis on: <<None, None>>, or the RunData and the MatchMeta.
CliMatched(h, args, m, a, cfg, res) ==
    IF ~res.ok THEN Outcome(h, res)
    ELSE IF Len(res.v.issues) > 0
            /\ \E i \in 1..Len(res.v.issues) : StartsWith(res.v.issues[i], "[ERROR]")
    THEN Outcome(h, Ok(<<NoRunData, NoRunData>>))
    ELSE IF res.v.curves = EmptyDict THEN Outcome(h, Ok(<<NoRunData, NoRunData>>))
    ELSE Outcome(h, Ok(<<RunData(m.engine, a, cfg, m.peak_bmep_kpa, 0, 0, res.v),
                         MatchMeta(m.confidence, m.assumptions_made)>>))

\* After match_engine: the curves of the matched engine.
CliMatchAnalyze(h, args, m, a, cfg) ==
    IF ~m.ok THEN Outcome(h, m)
    ELSE CliMatched(h, args, m.v, a, cfg,
                    analyze_basic_curves(m.v.engine, h.objs[a], cfg, m.v.peak_bmep_kpa, None))

_compute_match(h, args) ==
    LET a == CliAssumptions(h, args)
    IN  IF ~a.out.ok THEN a
        ELSE CliMatchAnalyze(a.heap, args,
                             match_engine(CliEngine(args, 0), a.heap.objs[a.out.v],
                                          args.target_power_kw, args.target_power_rpm,
                                          args.target_torque_nm, args.target_torque_rpm,
                                          args.peak_bmep_kpa),
                             a.out.v, RunConfig(args.rpm_min, args.rpm_max, args.rpm_step))

(***************************************************************************)
(* Specification of the command line's input building: Init draws what the *)
(* user typed, one step runs _compute_analyze or _compute_match.           *)
(***************************************************************************)
\* The options no call below varies.
ArgvBase ==
    [cyl |-> NoneNum, bore_mm |-> NoneNum, stroke_mm |-> NoneNum, cycle |-> None,
     idle |-> NoneNum, redline |-> NoneNum, rpm_min |-> NoneNum, rpm_max |-> NoneNum,
     rpm_step |-> Z(3000), load_json |-> None]

\* <<mass_kg, cd, fa_m2>>
ShapeChoices == {<<NoneNum, NoneNum, NoneNum>>, <<NoneNum, Q(1, 2), NoneNum>>, <<Z(1000), Q(1, 2), Z(2)>>}

AnalyzeArgvs ==
    {ArgvBase @@
     [disp_cc |-> disp, peak_bmep_kpa |-> bmep, profile |-> prof, fuel |-> fuel, bsfc |-> bsfc,
      engine_preset |-> ep, vehicle_preset |-> vp, gearbox_preset |-> gp,
      mass_kg |-> shape[1], cd |-> shape[2], fa_m2 |-> shape[3], crr |-> crr, rho |-> NoneNum,
      gears |-> gears, final_drive |-> fd, tire_radius_m |-> fd, drivetrain_eff |-> eff] :
        disp \in {NoneNum, Z(2000)}, bmep \in {NoneNum, Z(1000)},
        prof \in {None, "top_end"}, fuel \in {None, "diesel"}, bsfc \in {NoneNum, Z(250)},
        ep \in {None, "turbo_sport", "diesel_torque"}, vp \in {None, "suv"},
        gp \in {None, "5mt_short"}, shape \in ShapeChoices, crr \in {NoneNum, Q(1, 100)},
        gears \in {NoneList, SomeList(<<Z(3), Z(1)>>)}, fd \in {NoneNum, Q(1, 2)},
        eff \in {NoneNum, Q(1, 2)}}

MatchArgvs ==
    {[ArgvBase EXCEPT !.cyl = Z(4), !.bore_mm = Z(80), !.stroke_mm = Z(80)] @@
     [disp_cc |-> Z(2000), peak_bmep_kpa |-> bmep, profile |-> prof, fuel |-> fuel, bsfc |-> bsfc,
      engine_preset |-> ep, target_power_kw |-> NoneNum, target_power_rpm |-> NoneNum,
      target_torque_nm |-> NoneNum, target_torque_rpm |-> NoneNum] :
        bmep \in {NoneNum, Z(1000)}, prof \in {None, "top_end"}, fuel \in {None, "diesel"},
        bsfc \in {NoneNum, Z(250)}, ep \in {None, "turbo_sport", "diesel_torque"}}

CliCalls ==
    {[fn |-> "_compute_analyze", argv |-> a] : a \in AnalyzeArgvs}
    \cup {[fn |-> "_compute_match", argv |-> a] : a \in MatchArgvs}

InitCli == pc = "ready" /\ call \in CliCalls /\ ret = None /\ heap = PresetHeap

ComputeAnalyze ==
    /\ pc = "ready"
    /\ call.fn = "_compute_analyze"
    /\ call.argv.load_json = None
    /\ LET r == _compute_analyze(heap, parse_args(call.argv))
       IN  ret' = r.out /\ heap' = r.heap
    /\ pc' = "done"
    /\ UNCHANGED call

ComputeMatch ==
    /\ pc = "ready"
    /\ call.fn = "_compute_match"
    /\ LET r == _compute_match(heap, parse_args(call.argv))
       IN  ret' = r.out /\ heap' = r.heap
    /\ pc' = "done"
    /\ UNCHANGED call

NextCli == ComputeAnalyze \/ ComputeMatch

SpecCli == InitCli /\ [][NextCli]_vars

(***************************************************************************)
(* Claims about the presets and the command line's merge, checked under    *)
(* SpecCli.                                                                *)
(***************************************************************************)
\* The RunData returned, when one is.
CliRun ==
    IF pc = "done" /\ ret.ok
    THEN IF call.fn = "_compute_match" THEN ret.v[1] ELSE ret.v
    ELSE NoRunData

\* The user's value when the user gave one, the preset's when not.
MergedStr(user, preset) == IF user # None THEN user ELSE preset
MergedNum(user, preset) == IF ~IsNone(user) THEN user ELSE preset

EngineMerged(a, argv) ==
    LET d == ENGINE_PRESETS[argv.engine_preset]
    IN  /\ a.ve_profile = MergedStr(argv.profile, d.ve_profile)
        /\ a.fuel = MergedStr(argv.fuel, d.fuel)
        /\ a.bsfc_g_per_kwh = MergedNum(argv.bsfc, d.bsfc_g_per_kwh)

VehicleMerged(v, argv) ==
    LET d == VEHICLE_PRESETS[argv.vehicle_preset]
    IN  /\ v.mass_kg = MergedNum(argv.mass_kg, d.mass_kg)
        /\ v.cd = MergedNum(argv.cd, d.cd)
        /\ v.frontal_area_m2 = MergedNum(argv.fa_m2, d.frontal_area_m2)
        /\ v.crr = MergedNum(argv.crr, d.crr)
        /\ v.air_density_kg_m3 = MergedNum(argv.rho, d.air_density_kg_m3)

GearboxMerged(g, argv) ==
    LET d == GEARBOX_PRESETS[argv.gearbox_preset]
    IN  /\ g.gears # 0
        /\ heap.lists[g.gears] = IF argv.gears.given THEN argv.gears.list ELSE PRESET_GEARS[d.gears]
        /\ g.final_drive = MergedNum(argv.final_drive, d.final_drive)
        /\ g.tire_radius_m = MergedNum(argv.tire_radius_m, d.tire_radius_m)
        /\ g.drivetrain_efficiency = MergedNum(argv.drivetrain_eff, d.drivetrain_efficiency)

\* C23: when the analyze or match input is built with a preset, every field the
\* user supplied holds the user's value and every field the user did not supply
\* holds the preset's value, for engine, vehicle and gearbox presets alike.
C23_ExplicitWinsPresetFills ==
    CliRun # NoRunData =>
        /\ call.argv.engine_preset # None =>
               EngineMerged(heap.objs[CliRun.assumptions], call.argv)
        /\ (call.fn = "_compute_analyze" /\ CliRun.vehicle # 0) =>
               /\ call.argv.vehicle_preset # None =>
                      VehicleMerged(heap.objs[CliRun.vehicle], call.argv)
               /\ call.argv.gearbox_preset # None =>
                      GearboxMerged(heap.objs[CliRun.drivetrain], call.argv)

(***************************************************************************)
(* Specification of the preset functions in use: a caller applies presets  *)
(* to new or to its own specs and edits the specs it got back, up to       *)
(* MaxPresetSteps times.  call is the last step taken, with the heap       *)
(* before it.                                                              *)
(***************************************************************************)
MaxPresetSteps == 3

\* The preset names a caller passes: known ones, and ones no table of the kind has.
EngineNames == {"turbo_sport", "suv", ""}
VehicleNames == {"suv", "SUV"}
GearboxNames == {"5mt_short", "8at_typical", "6mt"}

IsAssumptions(obj) == "ve_profile" \in DOMAIN obj
IsVehicleSpec(obj) == "mass_kg" \in DOMAIN obj
IsDrivetrainSpec(obj) == "gears" \in DOMAIN obj

\* None, or one of the caller's own specs of the kind.
Bases(h, kind) ==
    {0} \cup {i \in 1..Len(h.objs) :
                 CASE kind = "Assumptions" -> IsAssumptions(h.objs[i])
                   [] kind = "VehicleSpec" -> IsVehicleSpec(h.objs[i])
                   [] OTHER -> IsDrivetrainSpec(h.objs[i])}

InitPresets ==
    /\ pc = "ready"
    /\ call = [fn |-> "import egstat.presets", n |-> 0]
    /\ ret = None
    /\ heap = PresetHeap

Stepped(fn, preset, base) ==
    /\ call' = [fn |-> fn, preset |-> preset, base |-> base, before |-> heap, n |-> call.n + 1]
    /\ pc' = IF call.n + 1 = MaxPresetSteps THEN "done" ELSE "ready"

ApplyEnginePreset ==
    /\ pc = "ready"
    /\ \E preset \in EngineNames, base \in Bases(heap, "Assumptions") :
          LET r == apply_engine_preset(heap, preset, base)
          IN  ret' = r.out /\ heap' = r.heap /\ Stepped("apply_engine_preset", preset, base)

ApplyVehiclePreset ==
    /\ pc = "ready"
    /\ \E preset \in VehicleNames, base \in Bases(heap, "VehicleSpec") :
          LET r == apply_vehicle_preset(heap, preset, base)
          IN  ret' = r.out /\ heap' = r.heap /\ Stepped("apply_vehicle_preset", preset, base)

ApplyGearboxPreset ==
    /\ pc = "ready"
    /\ \E preset \in GearboxNames, base \in Bases(heap, "DrivetrainSpec") :
          LET r == apply_gearbox_preset(heap, preset, base)
          IN  ret' = r.out /\ heap' = r.heap /\ Stepped("apply_gearbox_preset", preset, base)

\* The caller assigns a field of a spec it holds.
MutateSpec ==
    /\ pc = "ready"
    /\ \E i \in 1..Len(heap.objs) :
          /\ heap' = IF IsAssumptions(heap.objs[i])
                     THEN [heap EXCEPT !.objs[i].fuel = "e85", !.objs[i].bsfc_g_per_kwh = Z(300)]
                     ELSE IF IsVehicleSpec(heap.objs[i])
                     THEN [heap EXCEPT !.objs[i].mass_kg = Z(1), !.objs[i].crr = NoneNum]
                     ELSE [heap EXCEPT !.objs[i].final_drive = Z(1)]
          /\ ret' = None
          /\ Stepped("setattr", None, i)

\* The caller edits the gears list of a drivetrain in place: gears[0] = 9.0,
\* gears.append(0.5) or gears.clear().
MutateGears ==
    /\ pc = "ready"
    /\ \E i \in 1..Len(heap.objs), edit \in {"setitem", "append", "clear"} :
          /\ IsDrivetrainSpec(heap.objs[i])
          /\ heap.objs[i].gears # 0
          /\ LET l == heap.objs[i].gears
             IN  heap' = CASE edit = "setitem" /\ Len(heap.lists[l]) > 0 ->
                                  [heap EXCEPT !.lists[l][1] = Z(9)]
                           [] edit = "append" -> [heap EXCEPT !.lists[l] = Append(@, Q(1, 2))]
                           [] OTHER -> [heap EXCEPT !.lists[l] = <<>>]
          /\ ret' = None
          /\ Stepped(edit, None, i)

NextPresets ==
    \/ ApplyEnginePreset
    \/ ApplyVehiclePreset
    \/ ApplyGearboxPreset
    \/ MutateSpec
    \/ MutateGears

SpecPresets == InitPresets /\ [][NextPresets]_vars

(***************************************************************************)
(* Claims about the preset tables, checked under SpecPresets.              *)
(***************************************************************************)
\* The table the last call looked its preset up in.
TableOf(fn) ==
    CASE fn = "apply_engine_preset" -> ENGINE_PRESETS
      [] fn = "apply_vehicle_preset" -> VEHICLE_PRESETS
      [] fn = "apply_gearbox_preset" -> GEARBOX_PRESETS
      [] OTHER -> <<>>

UnknownPresetCall == TableOf(call.fn) # <<>> /\ call.preset \notin DOMAIN TableOf(call.fn)

\* The object and, for a drivetrain, the list its gears field refers to.
Contents(h, i) ==
    <<h.objs[i], IF IsDrivetrainSpec(h.objs[i]) /\ h.objs[i].gears # 0
                 THEN h.lists[h.objs[i].gears] ELSE <<>> >>

\* C29: ENGINE_PRESETS, VEHICLE_PRESETS and GEARBOX_PRESETS (with their gears
\* lists) are unchanged after any sequence of apply_*_preset calls interleaved
\* with mutations of the returned specs, in-place edits of a returned gears list
\* included; and a call with an unknown preset name raises an error that lists
\* every valid name and leaves the base spec passed in unchanged.
C29_TablesUnchanged ==
    /\ heap.ENGINE_PRESETS = ENGINE_PRESETS
    /\ heap.VEHICLE_PRESETS = VEHICLE_PRESETS
    /\ heap.GEARBOX_PRESETS = GEARBOX_PRESETS
    /\ SubSeq(heap.lists, 1, Len(PRESET_GEARS)) = PRESET_GEARS
    /\ UnknownPresetCall =>
           /\ ~ret.ok
           /\ StartsWith(ret.exc, "ValueError: Unknown ")
           /\ \A name \in DOMAIN TableOf(call.fn) : Contains(ret.exc, "'" \o name \o "'")
           /\ Len(heap.objs) = Len(call.before.objs)
           /\ call.base # 0 => Contents(heap, call.base) = Contents(call.before, call.base)

\* A gearbox preset was applied, the gears list that came back was edited in
\* place, and a call with an unknown name was then made on that drivetrain.
C29_Witness ==
    /\ UnknownPresetCall
    /\ call.base # 0
    /\ IsDrivetrainSpec(heap.objs[call.base])
    /\ heap.objs[call.base].gears > Len(PRESET_GEARS)
    /\ heap.lists[heap.objs[call.base].gears] \notin {PRESET_GEARS[k] : k \in 1..Len(PRESET_GEARS)}
    /\ heap.objs[call.base].final_drive \in {GEARBOX_PRESETS[k].final_drive : k \in DOMAIN GEARBOX_PRESETS}

(***************************************************************************)
(* Specification of a caller that edits a candidate it got from            *)
(* design_candidates: the objects the returned list refers to are in       *)
(* heap.objs, and each candidate holds references to them.                 *)
(***************************************************************************)
\* The objects behind a returned list.  assumptions (solver.py 255) and cfg
\* (256) are made once per call, before the loop; engine (265), notes (275)
\* and res (301) are made anew in each pass of the loop.
DesignObjects(kw, cands) ==
    [objs |-> <<Assumptions(kw.profile, kw.fuel, kw.bsfc_g_per_kwh),
                RunConfig(1000, kw.redline_rpm, 100)>>
              \o Tuple([k \in 1..(3 * Len(cands)) |->
                           CASE k % 3 = 1 -> cands[(k + 2) \div 3].engine
                             [] k % 3 = 2 -> cands[(k + 2) \div 3].result
                             [] OTHER -> cands[(k + 2) \div 3].notes])]

\* DesignCandidate(engine=engine, assumptions=assumptions, run_config=cfg, ...,
\* result=res, ..., notes=notes) of lines 326-336, as references.
DesignReferences(cands) ==
    Tuple([i \in 1..Len(cands) |->
              [cands[i] EXCEPT !.assumptions = 1, !.run_config = 2, !.engine = 3 * i,
                               !.result = 3 * i + 1, !.notes = 3 * i + 2]])

OwnedCalls ==
    {c \in DesignCalls :
        /\ c.kw.target_power_rpm = NoneNum
        /\ c.kw.redline_rpm = 1600
        /\ c.kw.bmep_max_kpa = Z(2000)
        /\ c.kw.piston_speed_max_mps = Z(20)
        /\ c.kw.disp_step_cc = 1000
        /\ c.kw.cylinders_list.given}

InitOwned == pc = "ready" /\ call \in OwnedCalls /\ ret = None /\ heap = NoObjects

DesignCandidatesOwned ==
    /\ pc = "ready"
    /\ call.fn = "design_candidates"
    /\ LET r == design_candidates(call.kw)
       IN  IF r.ok
           THEN ret' = Ok(DesignReferences(r.v)) /\ heap' = DesignObjects(call.kw, r.v)
           ELSE ret' = r /\ heap' = heap
    /\ pc' = "returned"
    /\ UNCHANGED call

\* The caller edits one object of candidate i in place.
MutateCandidate ==
    /\ pc = "returned"
    /\ ret.ok
    /\ \E i \in 1..Len(ret.v), field \in {"engine", "assumptions", "run_config", "result", "notes"} :
          /\ heap' = CASE field = "engine" -> [heap EXCEPT !.objs[ret.v[i].engine].cylinders = 12]
                       [] field = "assumptions" ->
                              [heap EXCEPT !.objs[ret.v[i].assumptions].fuel = "diesel"]
                       [] field = "run_config" ->
                              [heap EXCEPT !.objs[ret.v[i].run_config].rpm_step = 50]
                       [] field = "result" ->
                              [heap EXCEPT !.objs[ret.v[i].result].issues = Append(@, "[WARN] edited")]
                       [] OTHER -> [heap EXCEPT !.objs[ret.v[i].notes] = Append(@, "edited")]
          /\ call' = [fn |-> "setattr", candidate |-> i, field |-> field, before |-> heap]
    /\ pc' = "done"
    /\ UNCHANGED ret

NextOwned == DesignCandidatesOwned \/ MutateCandidate

SpecOwned == InitOwned /\ [][NextOwned]_vars

\* Candidate c with every reference replaced by the object it refers to in h.
Dereferenced(h, c) ==
    [c EXCEPT !.engine = h.objs[@], !.assumptions = h.objs[@], !.run_config = h.objs[@],
              !.result = h.objs[@], !.notes = h.objs[@]]

\* C24: the DesignCandidates returned by one design_candidates call share no
\* mutable state: after the engine, assumptions, run_config, result or notes of
\* one returned candidate is mutated, every field of every other returned
\* candidate is unchanged.
C24_NoSharedState ==
    (pc = "done" /\ call.fn = "setattr") =>
        \A j \in 1..Len(ret.v) :
            j # call.candidate => Dereferenced(heap, ret.v[j]) = Dereferenced(call.before, ret.v[j])

(***************************************************************************)
(* Further claims about match_engine, checked under SpecMatch.             *)
(***************************************************************************)
\* C25: the confidence match_engine returns is never below 0.20: the
\* penalties that fire together never sum to more than 0.80, so the final
\* clamp to [0, 1] leaves 1.0 minus their sum as it is.
C25_ConfidenceFloor ==
    MatchReturned =>
        LET total == PenaltySum(KindsOf(ret.v.assumptions_made))
        IN  /\ total <= 80
            /\ ret.v.confidence = RSub(Z(1), Q(total, 100))
            /\ RGe(ret.v.confidence, Q(20, 100))

\* The floor is met: no geometry, a torque target without its rpm, no BMEP.
C25_Witness ==
    /\ MatchReturned
    /\ KindsOf(ret.v.assumptions_made) = <<"missing_geometry", "bmep_default", "peak_torque_rpm">>
    /\ ret.v.confidence = Q(20, 100)

\* The kinds of the notes made, as a set.
KindsMade == {NoteKind(ret.v.assumptions_made[i]) : i \in 1..Len(ret.v.assumptions_made)}

\* C26: whenever the cylinder count of the output EngineSpec differs from the
\* caller's (the caller passed 0 and the output is a guess), assumptions_made
\* has a note about the assumed cylinder count and the confidence is below 1.0;
\* and whenever the output's displacement_m3 is None, assumptions_made has the
\* "Missing geometry" note and the confidence carries its 0.40 penalty.
C26_GuessesAreNoted ==
    MatchReturned =>
        /\ ret.v.engine.cylinders # call.engine.cylinders =>
               /\ KindsMade \cap {"cylinders_from_bucket", "cylinders_default"} # {}
               /\ RLt(ret.v.confidence, Z(1))
        /\ IsNone(ret.v.engine.displacement_m3) =>
               /\ "missing_geometry" \in KindsMade
               /\ RLe(ret.v.confidence, Q(60, 100))

(***************************************************************************)
(* Specification of two design_candidates calls that differ only in        *)
(* piston_speed_max_mps: ret collects the two returned lists.              *)
(***************************************************************************)
PistonCeilings == {Z(0), Q(1, 1000), Z(-1)}

DesignPairCalls ==
    {[fn |-> "design_candidates",
      kws |-> <<c.kw, [c.kw EXCEPT !.piston_speed_max_mps = ps]>>] :
        c \in {d \in DesignCalls : /\ d.kw.piston_speed_max_mps = Z(20)
                                   /\ d.kw.disp_step_cc # 0
                                   /\ d.kw.top_n = 5},
        ps \in PistonCeilings}

InitDesignPair == pc = "ready" /\ call \in DesignPairCalls /\ ret = <<>> /\ heap = NoObjects

DesignCandidatesOfPair ==
    /\ pc = "ready"
    /\ call.fn = "design_candidates"
    /\ ret' = Append(ret, design_candidates(call.kws[Len(ret) + 1]))
    /\ pc' = IF Len(ret) + 1 = Len(call.kws) THEN "done" ELSE "ready"
    /\ UNCHANGED <<call, heap>>

NextDesignPair == DesignCandidatesOfPair

SpecDesignPair == InitDesignPair /\ [][NextDesignPair]_vars

\* C27: the list design_candidates returns does not depend on
\* piston_speed_max_mps: two calls that differ only in it return the same
\* candidates in the same order, and no returned Result carries
\* piston_speed_mps_at_redline.
C27_PistonCeilingIgnored ==
    (pc = "done" /\ Len(ret) = 2) =>
        /\ ret[1] = ret[2]
        /\ \A k \in 1..2 : ret[k].ok =>
               \A i \in 1..Len(ret[k].v) :
                   "piston_speed_mps_at_redline" \notin DOMAIN ret[k].v[i].result.scalars

\* Two calls, with ceilings 20 and 0.001 m/s, that both return candidates.
C27_Witness ==
    /\ pc = "done"
    /\ Len(ret) = 2
    /\ call.kws[2].piston_speed_max_mps = Q(1, 1000)
    /\ ret[1].ok
    /\ Len(ret[1].v) >= 2
    /\ Len(ret[2].v) >= 2

(***************************************************************************)
(* Further claims about design_candidates, checked under SpecDesign.       *)
(***************************************************************************)
\* a is the smaller engine: less displacement and no more cylinders, or the
\* same displacement and fewer cylinders.
SmallerEngine(a, b) ==
    \/ /\ RLt(a.engine.displacement_m3, b.engine.displacement_m3)
       /\ a.engine.cylinders <= b.engine.cylinders
    \/ /\ a.engine.displacement_m3 = b.engine.displacement_m3
       /\ a.engine.cylinders < b.engine.cylinders

\* Among the survivors all the score is the same but for the size penalty,
\* the BMEP follows the displacement alone, and in the returned list out the
\* smaller of two survivors comes first.
SizeDecides(out, all) ==
    /\ \A i, j \in 1..Len(all) :
           /\ PowerError(all[i]) = PowerError(all[j])
           /\ all[i].result.scalars["peak_power_rpm"] = all[j].result.scalars["peak_power_rpm"]
           /\ RSub(all[i].score, SizePenalty(all[i])) = RSub(all[j].score, SizePenalty(all[j]))
           /\ (all[i].engine.displacement_m3 = all[j].engine.displacement_m3)
                  <=> (all[i].peak_bmep_kpa = all[j].peak_bmep_kpa)
    /\ \A i \in 1..Len(all), j \in 1..Len(out) :
           SmallerEngine(all[i], out[j]) => \E k \in 1..(j - 1) : out[k] = all[i]

\* C28: within one design_candidates call the power_error and rpm_error terms
\* are the same for every surviving combination, so the size penalty alone
\* decides the ranking: a survivor with smaller displacement and no more
\* cylinders, or equal displacement and fewer cylinders, ranks before the
\* larger one; and the required peak BMEP depends on the displacement but not
\* on the cylinder count.
C28_SizeDecidesRanking == DesignSearched => SizeDecides(ret.v, Survivors)

\* Survivors of two displacements and two cylinder counts that all miss the
\* target power by the same non-zero error, more of them than are returned.
C28_Witness ==
    /\ DesignSearched
    /\ Len(ret.v) >= 2
    /\ Len(Survivors) > Len(ret.v)
    /\ RGt(PowerError(ret.v[1]), Z(0))
    /\ \E i, j \in 1..Len(Survivors) :
           /\ Survivors[i].engine.cylinders # Survivors[j].engine.cylinders
           /\ Survivors[i].engine.displacement_m3 # Survivors[j].engine.displacement_m3

(***************************************************************************)
(* Specification of the match solver followed by the curve generator, as   *)
(* _compute_match chains them: match_engine infers the BMEP from a torque  *)
(* target, analyze_basic_curves runs on the engine and BMEP it returned.   *)
(* ret collects the two results.                                           *)
(***************************************************************************)
CycleStrings == {"4-stroke", "2-stroke", " 2-Stroke", "4-stroke 12V", ""}

\* Torque targets are multiples of 1/pi, so that the inferred BMEP is rational.
ChainCalls ==
    {[fn |-> "match_engine",
      engine |-> EngineSpec(4, cycle, Q(80, 1000), Q(90, 1000), Q(disp_cc, 1000000), 800, 7000),
      assumptions |-> Assumptions(prof, "petrol", NoneNum),
      cfg |-> RunConfig(1000, 7000, 1500),
      target_torque_nm |-> Num(tq, 1, -1), target_torque_rpm |-> ttr] :
        cycle \in CycleStrings, disp_cc \in {1000, 2000},
        prof \in {"balanced", "torque_biased", "top_end"},
        tq \in {300, 600}, ttr \in {NoneNum, Z(4000)}}

InitChain == pc = "ready" /\ call \in ChainCalls /\ ret = <<>> /\ heap = NoObjects

MatchForTorque ==
    /\ pc = "ready"
    /\ call.fn = "match_engine"
    /\ ret' = <<match_engine(call.engine, call.assumptions, NoneNum, NoneNum,
                             call.target_torque_nm, call.target_torque_rpm, NoneNum)>>
    /\ pc' = IF ret'[1].ok THEN "matched" ELSE "done"
    /\ UNCHANGED <<call, heap>>

AnalyzeMatched ==
    /\ pc = "matched"
    /\ ret' = Append(ret, analyze_basic_curves(ret[1].v.engine, call.assumptions, call.cfg,
                                               ret[1].v.peak_bmep_kpa, None))
    /\ pc' = "done"
    /\ UNCHANGED <<call, heap>>

NextChain == MatchForTorque \/ AnalyzeMatched

SpecChain == InitChain /\ [][NextChain]_vars

\* Both calls returned and the second produced curves.
ChainDone ==
    /\ pc = "done"
    /\ Len(ret) = 2
    /\ ret[2].ok
    /\ "torque_nm" \in DOMAIN ret[2].v.curves

\* C30: for every cycle string match_engine and analyze_basic_curves classify
\* the engine the same way (2-stroke or 4-stroke), so the BMEP match_engine
\* inferred from a torque target is the one at which the generated torque is
\* the target: the curve's torque at BMEP factor 1 equals the target, and every
\* value of the torque curve is <= the torque target.
C30_SameCycleClass ==
    ChainDone =>
        /\ (_cycle_denominator(call.engine.cycle) = RMul(Z(2), Pi))
               <=> (_revs_per_power_from_cycle(ret[1].v.engine.cycle) = 1)
        /\ torque_nm_from_bmep_pa(RMul(ret[1].v.peak_bmep_kpa, Z(1000)),
                                  ret[1].v.engine.displacement_m3,
                                  _revs_per_power_from_cycle(ret[1].v.engine.cycle))
               = Ok(call.target_torque_nm)
        /\ \A i \in 1..Len(ret[2].v.curves["torque_nm"]) :
               RLe(ret[2].v.curves["torque_nm"][i], call.target_torque_nm)

====
